---------------------------- MODULE Spec2Model ----------------------------
(***************************************************************************)
(* A model of did-jwt's selective-disclosure layer (SD-JWT.ts) and of its  *)
(* JWE envelope (encryption/JWE.ts).                                       *)
(*                                                                         *)
(* JSON values are tagged tuples, so that values of different JSON kinds   *)
(* can be compared:                                                        *)
(*   <<"null">>  <<"str", s>>  <<"num", n>>  <<"bool", b>>                  *)
(*   <<"arr", <<v1, ..., vn>> >>                                            *)
(*   <<"obj", << <<k1, v1>>, ..., <<kn, vn>> >> >>   (own keys, in order)   *)
(*   <<"undefined">>  (JavaScript's undefined, which JSON text cannot hold) *)
(* A result is <<"ok", value>> or <<"err", message>> (a thrown Error).     *)
(***************************************************************************)
EXTENDS Integers, Sequences, FiniteSets, TLC

JNull == <<"null">>
JUndef == <<"undefined">>
JStr(s) == <<"str", s>>
JNum(n) == <<"num", n>>
JBool(b) == <<"bool", b>>
JArr(elems) == <<"arr", elems>>
JObj(pairs) == <<"obj", pairs>>

Ok(v) == <<"ok", v>>
Err(msg) == <<"err", msg>>
IsOk(r) == r[1] = "ok"
IsErr(r) == r[1] = "err"

IsArr(v) == v[1] = "arr"
IsObj(v) == v[1] = "obj"
\* JavaScript's typeof v === 'object': objects, arrays and null.
TypeofObject(v) == v[1] \in {"obj", "arr", "null"}

(***************************************************************************)
(* Own properties of a JavaScript object.  Integer-like keys come first in *)
(* Object.entries; the only integer-like keys the model draws are "0",     *)
(* "1" and "2".                                                            *)
(***************************************************************************)
IndexKeys == {"0", "1", "2"}
IndexRank(k) == CASE k = "0" -> 0 [] k = "1" -> 1 [] OTHER -> 2
OwnKeys(o) == {o[2][i][1] : i \in DOMAIN o[2]}
HasOwn(o, k) == k \in OwnKeys(o)
KeyPos(o, k) == CHOOSE i \in DOMAIN o[2] : o[2][i][1] = k
GetProp(o, k) == IF HasOwn(o, k) THEN o[2][KeyPos(o, k)][2] ELSE JUndef
SetProp(o, k, v) ==
  IF HasOwn(o, k) THEN JObj([o[2] EXCEPT ![KeyPos(o, k)] = <<k, v>>])
  ELSE IF k \in IndexKeys
       THEN LET Lower(p) == p[1] \in IndexKeys /\ IndexRank(p[1]) < IndexRank(k)
                before == SelectSeq(o[2], Lower)
                after == SelectSeq(o[2], LAMBDA p : ~Lower(p))
            IN JObj(before \o <<<<k, v>>>> \o after)
       ELSE JObj(Append(o[2], <<k, v>>))
DelProp(o, k) == JObj(SelectSeq(o[2], LAMBDA p : p[1] # k))

RECURSIVE Spread(_, _)
\* { ...target, ...source }: source's entries assigned onto target in order.
Spread(target, source) ==
  IF source[2] = <<>> THEN target
  ELSE Spread(SetProp(target, Head(source[2])[1], Head(source[2])[2]),
              JObj(Tail(source[2])))

\* Names every plain object inherits from Object.prototype (a sample): the
\* `in` operator finds them too.
ObjectPrototypeKeys == {"constructor", "toString", "hasOwnProperty", "valueOf"}
\* Names every array has besides its indices: length and Array.prototype's.
ArrayPrototypeKeys == {"length", "push", "map", "filter"} \cup ObjectPrototypeKeys
\* k in o, for a plain object o.
InObject(k, o) == HasOwn(o, k) \/ k \in ObjectPrototypeKeys

\* String(v) for a value used as a property key.
PropertyKey(v) ==
  CASE v[1] = "str" -> v[2]
    [] v[1] = "num" -> ToString(v[2])
    [] v[1] = "bool" -> IF v[2] THEN "true" ELSE "false"
    [] v[1] = "null" -> "null"
    [] v[1] = "undefined" -> "undefined"
    [] v[1] = "arr" -> ""
    [] OTHER -> "[object Object]"

\* Object.entries(v): an object's own pairs, an array's elements under their
\* indices.
Entries(v) ==
  IF IsArr(v) THEN [i \in DOMAIN v[2] |-> <<ToString(i - 1), v[2][i]>>]
  ELSE v[2]

(***************************************************************************)
(* JSON text, as a sequence of tokens; a literal is one token.             *)
(***************************************************************************)
TokLB == <<"[">>
TokRB == <<"]">>
TokLC == <<"{">>
TokRC == <<"}">>
TokComma == <<",">>
TokColon == <<":">>
TokSpace == <<" ">>
Lit(p) == <<"lit", p>>
IsLit(t) == t[1] = "lit"

RECURSIVE JSONStringify(_)
RECURSIVE StringifyElems(_, _)
RECURSIVE StringifyMembers(_, _)
\* JSON.stringify(v), compact.
JSONStringify(v) ==
  CASE v[1] = "arr" -> <<TokLB>> \o StringifyElems(v[2], 1) \o <<TokRB>>
    [] v[1] = "obj" -> <<TokLC>> \o StringifyMembers(v[2], TRUE) \o <<TokRC>>
    [] OTHER -> <<Lit(v)>>

\* undefined inside an array is written as null.
StringifyElems(elems, i) ==
  IF i > Len(elems) THEN <<>>
  ELSE (IF i > 1 THEN <<TokComma>> ELSE <<>>)
       \o (IF elems[i] = JUndef THEN <<Lit(JNull)>> ELSE JSONStringify(elems[i]))
       \o StringifyElems(elems, i + 1)

\* a member whose value is undefined is left out.
StringifyMembers(pairs, first) ==
  IF pairs = <<>> THEN <<>>
  ELSE IF Head(pairs)[2] = JUndef THEN StringifyMembers(Tail(pairs), first)
  ELSE (IF first THEN <<>> ELSE <<TokComma>>)
       \o <<Lit(JStr(Head(pairs)[1])), TokColon>>
       \o JSONStringify(Head(pairs)[2])
       \o StringifyMembers(Tail(pairs), FALSE)

\* A thrown Error passes through; a value goes on to F.
Bind(r, F(_)) == IF IsErr(r) THEN r ELSE F(r[2])

ParseFail == [ok |-> FALSE, val |-> JNull, rest |-> <<>>]
ParseOk(v, rest) == [ok |-> TRUE, val |-> v, rest |-> rest]

RECURSIVE SkipWs(_)
SkipWs(t) == IF t # <<>> /\ Head(t) = TokSpace THEN SkipWs(Tail(t)) ELSE t

RECURSIVE ParseValue(_)
RECURSIVE ParseElems(_, _)
RECURSIVE ParseMembers(_, _)

\* after an element: ',' and the next element, or ']'.
ElemsSep(val, s, acc) ==
  IF s = <<>> THEN ParseFail
  ELSE IF Head(s) = TokComma THEN ParseElems(Tail(s), Append(acc, val))
  ELSE IF Head(s) = TokRB THEN ParseOk(JArr(Append(acc, val)), Tail(s))
  ELSE ParseFail
ElemsNext(r, acc) == IF ~r.ok THEN ParseFail ELSE ElemsSep(r.val, SkipWs(r.rest), acc)
ParseElems(t, acc) == ElemsNext(ParseValue(t), acc)

\* after a member: ',' and the next member, or '}'.
MemberSep(acc, s) ==
  IF s = <<>> THEN ParseFail
  ELSE IF Head(s) = TokComma THEN ParseMembers(Tail(s), acc)
  ELSE IF Head(s) = TokRC THEN ParseOk(acc, Tail(s))
  ELSE ParseFail
MemberValue(key, r, acc) ==
  IF ~r.ok THEN ParseFail ELSE MemberSep(SetProp(acc, key, r.val), SkipWs(r.rest))
MemberColon(key, c, acc) ==
  IF c = <<>> \/ Head(c) # TokColon THEN ParseFail
  ELSE MemberValue(key, ParseValue(Tail(c)), acc)
MemberKey(k, acc) ==
  IF k = <<>> \/ ~IsLit(Head(k)) THEN ParseFail
  ELSE IF Head(k)[2][1] # "str" THEN ParseFail
  ELSE MemberColon(Head(k)[2][2], SkipWs(Tail(k)), acc)
ParseMembers(t, acc) == MemberKey(SkipWs(t), acc)

ParseArray(s) ==
  IF s # <<>> /\ Head(s) = TokRB THEN ParseOk(JArr(<<>>), Tail(s))
  ELSE ParseElems(s, <<>>)
ParseObject(s) ==
  IF s # <<>> /\ Head(s) = TokRC THEN ParseOk(JObj(<<>>), Tail(s))
  ELSE ParseMembers(s, JObj(<<>>))
ParseAt(s) ==
  IF s = <<>> THEN ParseFail
  ELSE IF Head(s) = TokLB THEN ParseArray(SkipWs(Tail(s)))
  ELSE IF Head(s) = TokLC THEN ParseObject(SkipWs(Tail(s)))
  ELSE IF IsLit(Head(s)) /\ Head(s)[2] # JUndef THEN ParseOk(Head(s)[2], Tail(s))
  ELSE ParseFail
ParseValue(t) == ParseAt(SkipWs(t))

ParseEnd(r) == IF r.ok /\ SkipWs(r.rest) = <<>> THEN Ok(r.val) ELSE Err("SyntaxError")
\* JSON.parse(text): the value, or a SyntaxError.
JSONParse(t) == ParseEnd(ParseValue(t))

(***************************************************************************)
(* Disclosures.  A base64url string is the text it encodes, wrapped; the   *)
(* empty string is B64u(<<>>).                                             *)
(***************************************************************************)
B64u(text) == <<"b64u", text>>
\* A Uint8Array: the sequence of its bytes; stringToBytes keeps the text.
Uint8Array(bytes) == <<"bytes", bytes>>
stringToBytes(text) == Uint8Array(text)
bytesToBase64url(bytes) == B64u(bytes[2])
\* decodeBase64url(s)
decodeBase64url(s) == s[2]

DEFAULT_SD_ALG == "sha-256"

\* createSalt(): random bytes, here the n-th fresh salt.
createSalt(n) == "salt" \o ToString(n)

\* A faulty order: the name before the salt.
KeyBeforeSalt(d) ==
  IF "key" \in DOMAIN d THEN <<JStr(d.key), JStr(d.salt), d.value>>
  ELSE <<JStr(d.salt), d.value>>

\* disclosureToArray: [salt, key, value] with a key, [salt, value] without.
\* A disclosure is a record with or without the field key.
disclosureToArray(d) ==
  IF "key" \in DOMAIN d THEN <<JStr(d.salt), JStr(d.key), d.value>>
  ELSE <<JStr(d.salt), d.value>>

RECURSIVE JoinSpec(_, _)
JoinSpec(elems, i) ==
  IF i > Len(elems) THEN <<>>
  ELSE (IF i > 1 THEN <<TokComma, TokSpace>> ELSE <<>>)
       \o JSONStringify(elems[i]) \o JoinSpec(elems, i + 1)
\* doSpecStringify: each element rendered alone, joined with ', '.
doSpecStringify(elems) == <<TokLB>> \o JoinSpec(elems, 1) \o <<TokRB>>

encodeDisclosure(d, specCompatStringify) ==
  LET disclosureAsArray == disclosureToArray(d)
      stringified == IF specCompatStringify THEN doSpecStringify(disclosureAsArray)
                     ELSE JSONStringify(JArr(disclosureAsArray))
  IN bytesToBase64url(stringToBytes(stringified))

\* options?.salt || createSalt(): the empty string counts as no salt given.
createObjectPropertyDisclosure(key, value, salt, specCompatStringify) ==
  encodeDisclosure([salt |-> IF salt = "" THEN createSalt(0) ELSE salt,
                    key |-> key, value |-> value], specCompatStringify)

createArrayElementDisclosure(arrayElement, salt, specCompatStringify) ==
  encodeDisclosure([salt |-> IF salt = "" THEN createSalt(0) ELSE salt,
                    value |-> arrayElement], specCompatStringify)

\* sha256 then base64url: a collision-free digest, as a string.
Sha256Digest(disclosure) == ToString(disclosure[2])

hashDisclosure(disclosure, sd_alg) ==
  IF sd_alg = DEFAULT_SD_ALG THEN Ok(Sha256Digest(disclosure))
  ELSE Err("Unsupported sd_alg")

(***************************************************************************)
(* Map<string, string>: a sequence of <<key, value>> in insertion order,   *)
(* keys unique.                                                            *)
(***************************************************************************)
MapKeys(m) == {m[i][1] : i \in DOMAIN m}
MapHas(m, k) == k \in MapKeys(m)
MapGet(m, k) == m[CHOOSE i \in DOMAIN m : m[i][1] = k][2]
MapSet(m, k, v) ==
  IF MapHas(m, k) THEN [m EXCEPT ![CHOOSE i \in DOMAIN m : m[i][1] = k] = <<k, v>>]
  ELSE Append(m, <<k, v>>)
MapValues(m) == [i \in DOMAIN m |-> m[i][2]]

RECURSIVE MapFromEntries(_, _, _, _)
\* new Map(disclosures.map((d) => [hashDisclosure(d, sd_alg), d]))
MapFromEntries(disclosures, sd_alg, i, acc) ==
  IF i > Len(disclosures) THEN Ok(acc)
  ELSE Bind(hashDisclosure(disclosures[i], sd_alg),
            LAMBDA digest : MapFromEntries(disclosures, sd_alg, i + 1,
                                           MapSet(acc, digest, disclosures[i])))

\* A faulty index: each disclosure replaces the map, so only the last one
\* of the list is found.
LastDisclosureOnly(disclosures, sd_alg) ==
  MapFromEntries(IF disclosures = <<>> THEN <<>> ELSE <<disclosures[Len(disclosures)]>>,
                 sd_alg, 1, <<>>)

buildDigestDisclosureMap(disclosures, sd_alg) ==
  MapFromEntries(disclosures, sd_alg, 1, <<>>)

\* a[i] of a JavaScript array: undefined past its end.
At(a, i) == IF i <= Len(a) THEN a[i] ELSE JUndef

parseArrayElementDisclosure(encodedDisclosure) ==
  Bind(JSONParse(decodeBase64url(encodedDisclosure)),
       LAMBDA parsed :
         IF ~IsArr(parsed) THEN Err("Invalid disclosure format")
         ELSE Ok([salt |-> At(parsed[2], 1), value |-> At(parsed[2], 2)]))

parseObjectPropertyDisclosure(encodedDisclosure) ==
  Bind(JSONParse(decodeBase64url(encodedDisclosure)),
       LAMBDA parsed :
         IF ~IsArr(parsed) THEN Err("Invalid disclosure format")
         ELSE IF Len(parsed[2]) # 3 THEN Err("Disclosure array length is not supported")
         ELSE Ok([salt |-> parsed[2][1], key |-> parsed[2][2], value |-> parsed[2][3]]))

\* !(key in ['nbf', 'iat', 'exp']): `in` on an array asks for an index or an
\* inherited name, not for an element.
isValidDisclosureKey(key) ==
  ~(key \in {"0", "1", "2"} \cup ArrayPrototypeKeys)

(***************************************************************************)
(* Expansion.  The loops of the source are folds that stop at the first    *)
(* thrown error.                                                           *)
(***************************************************************************)
\* parse one disclosure of _sd and check its key.
CheckedDisclosure(encodedDisclosure) ==
  Bind(parseObjectPropertyDisclosure(encodedDisclosure),
       LAMBDA parsed :
         IF ~isValidDisclosureKey(PropertyKey(parsed.key))
         THEN Err("Invalid disclosure key")
         ELSE Ok(parsed))

RECURSIVE ParseSdValues(_, _, _, _)
\* sdValues.filter(has).map(parse and check the key): the parsed disclosures
\* of the digests the map holds, in _sd's order.
ParseSdValues(sdValues, disclosureMap, i, acc) ==
  IF i > Len(sdValues) THEN Ok(acc)
  ELSE IF ~(sdValues[i][1] = "str" /\ MapHas(disclosureMap, sdValues[i][2]))
       THEN ParseSdValues(sdValues, disclosureMap, i + 1, acc)
  ELSE Bind(CheckedDisclosure(MapGet(disclosureMap, sdValues[i][2])),
            LAMBDA parsed : ParseSdValues(sdValues, disclosureMap, i + 1,
                                          Append(acc, parsed)))

RECURSIVE expandDisclosures(_, _, _)
RECURSIVE expandArrayElements(_, _, _, _, _)
RECURSIVE AssignDisclosures(_, _, _, _, _)
RECURSIVE ExpandEntries(_, _, _, _, _)

\* {'...': digest}: the disclosed value is pushed as it is; a digest the map
\* does not hold (or that maps to '') pushes nothing.
ExpandWrapper(digest, disclosureMap) ==
  IF ~(digest[1] = "str" /\ MapHas(disclosureMap, digest[2])) THEN Ok(<<>>)
  ELSE IF MapGet(disclosureMap, digest[2]) = B64u(<<>>) THEN Ok(<<>>)
  ELSE Bind(parseArrayElementDisclosure(MapGet(disclosureMap, digest[2])),
            LAMBDA parsed : Ok(<<parsed.value>>))

\* One turn of the loop of expandArrayElements: what it pushes.  typeof null
\* is 'object', and '...' in null throws.
ExpandElement(element, disclosureMap, recurse) ==
  IF ~TypeofObject(element) THEN Ok(<<element>>)
  ELSE IF element = JNull THEN Err("TypeError")
  ELSE IF IsObj(element) /\ HasOwn(element, "...")
       THEN ExpandWrapper(GetProp(element, "..."), disclosureMap)
  ELSE IF recurse
       THEN Bind(expandDisclosures(element, disclosureMap, recurse),
                 LAMBDA el : Ok(<<el>>))
  ELSE Ok(<<element>>)

\* for (const element of arrayElements) { ... } return mappedArray
expandArrayElements(arrayElements, disclosureMap, recurse, i, mappedArray) ==
  IF i > Len(arrayElements) THEN Ok(mappedArray)
  ELSE Bind(ExpandElement(arrayElements[i], disclosureMap, recurse),
            LAMBDA pushed : expandArrayElements(arrayElements, disclosureMap, recurse,
                                                i + 1, mappedArray \o pushed))

\* expandArrayElements(...) as an array value.
ExpandArray(arr, disclosureMap, recurse) ==
  Bind(expandArrayElements(arr[2], disclosureMap, recurse, 1, <<>>),
       LAMBDA mappedArray : Ok(JArr(mappedArray)))

\* the value a disclosed claim is assigned with.
DisclosedValue(value, disclosureMap, recurse) ==
  IF recurse /\ IsArr(value) THEN ExpandArray(value, disclosureMap, recurse)
  ELSE IF recurse /\ IsObj(value) THEN expandDisclosures(value, disclosureMap, recurse)
  ELSE Ok(value)

\* asObjectDisclosures.forEach(...): each disclosed claim assigned onto wip.
AssignDisclosures(asObjectDisclosures, disclosureMap, recurse, i, wip) ==
  IF i > Len(asObjectDisclosures) THEN Ok(wip)
  ELSE IF InObject(PropertyKey(asObjectDisclosures[i].key), wip)
       THEN Err("Duplicate key in disclosure")
  ELSE Bind(DisclosedValue(asObjectDisclosures[i].value, disclosureMap, recurse),
            LAMBDA value :
              AssignDisclosures(asObjectDisclosures, disclosureMap, recurse, i + 1,
                                SetProp(wip, PropertyKey(asObjectDisclosures[i].key), value)))

\* wip[key] = mapped, for the i-th entry of an object or of an array.
SetEntry(wip, i, key, mapped) ==
  IF IsArr(wip) THEN JArr([wip[2] EXCEPT ![i] = mapped]) ELSE SetProp(wip, key, mapped)

\* The branch key === '_sd': the disclosed claims are put on wip, and _sd is
\* deleted.
ExpandSd(value, disclosureMap, recurse, wip) ==
  IF ~IsArr(value) THEN Err("TypeError")
  ELSE Bind(ParseSdValues(value[2], disclosureMap, 1, <<>>),
            LAMBDA asObjectDisclosures :
              Bind(AssignDisclosures(asObjectDisclosures, disclosureMap, recurse, 1, wip),
                   LAMBDA assigned : Ok(DelProp(assigned, "_sd"))))

\* One turn of the loop of expandDisclosures: wip after the entry.
ExpandEntry(i, key, value, disclosureMap, recurse, wip) ==
  IF key = "_sd" THEN ExpandSd(value, disclosureMap, recurse, wip)
  ELSE IF IsArr(value)
       THEN Bind(ExpandArray(value, disclosureMap, recurse),
                 LAMBDA mapped : Ok(SetEntry(wip, i, key, mapped)))
  ELSE IF recurse /\ TypeofObject(value)
       THEN Bind(expandDisclosures(value, disclosureMap, recurse),
                 LAMBDA mapped : Ok(SetEntry(wip, i, key, mapped)))
  ELSE Ok(wip)

\* for (const [key, value] of entries) { ... } return wip
ExpandEntries(entries, disclosureMap, recurse, i, wip) ==
  IF i > Len(entries) THEN Ok(wip)
  ELSE Bind(ExpandEntry(i, entries[i][1], entries[i][2], disclosureMap, recurse, wip),
            LAMBDA next : ExpandEntries(entries, disclosureMap, recurse, i + 1, next))

\* expandDisclosures(jwtPayload, disclosureMap, recurse): wip is a deep copy
\* of jwtPayload; Object.entries(null) throws.
expandDisclosures(jwtPayload, disclosureMap, recurse) ==
  IF jwtPayload = JNull THEN Err("TypeError")
  ELSE ExpandEntries(Entries(jwtPayload), disclosureMap, recurse, 1, jwtPayload)

(***************************************************************************)
(* Expansion again, on objects that have an identity.  The heap is the     *)
(* sequence of the objects and arrays made so far; a member that is an     *)
(* object or an array is a reference to its place.  A machine st holds the *)
(* heap, the digest-to-disclosure map, the value just returned or the      *)
(* error thrown (out), the deepest nested call so far, the disclosed       *)
(* values put in so far, and whether every call that has returned left     *)
(* the objects that existed when it was entered as they were.              *)
(***************************************************************************)
Ref(a) == <<"ref", a>>
IsRef(v) == v[1] = "ref"
\* The object or array a reference stands for.
Cell(st, ref) == st.heap[ref[2]]

Return(st, v) == [st EXCEPT !.out = Ok(v)]
Throw(st, message) == [st EXCEPT !.out = Err(message)]
\* The statements after one that may throw.
Go(st, F(_)) == IF IsErr(st.out) THEN st ELSE F(st)

\* {} or []: a new object.
New(st, cell) ==
  [st EXCEPT !.heap = Append(@, cell), !.out = Ok(Ref(Len(st.heap) + 1))]

RECURSIVE Store(_, _)
RECURSIVE StoreAll(_, _, _, _)
\* JSON.parse makes new objects only: the members first, then the object.
StoreAll(st, values, i, vals) ==
  IF i > Len(values) THEN Return(st, vals)
  ELSE Go(Store(st, values[i]),
          LAMBDA s : StoreAll(s, values, i + 1, Append(vals, s.out[2])))
Store(st, value) ==
  IF IsObj(value)
  THEN Go(StoreAll(st, [i \in DOMAIN value[2] |-> value[2][i][2]], 1, <<>>),
          LAMBDA s : New(s, JObj([i \in DOMAIN value[2] |->
                                    <<value[2][i][1], s.out[2][i]>>])))
  ELSE IF IsArr(value)
  THEN Go(StoreAll(st, value[2], 1, <<>>), LAMBDA s : New(s, JArr(s.out[2])))
  ELSE Return(st, value)

RECURSIVE Load(_, _)
\* The JSON value a member stands for.
Load(heap, v) ==
  IF ~IsRef(v) THEN v
  ELSE IF IsObj(heap[v[2]])
  THEN JObj([i \in DOMAIN heap[v[2]][2] |->
               <<heap[v[2]][2][i][1], Load(heap, heap[v[2]][2][i][2])>>])
  ELSE JArr([i \in DOMAIN heap[v[2]][2] |-> Load(heap, heap[v[2]][2][i])])

\* A faulty copy: wip is the object that was passed in.
SameObject(st, jwtPayload) == Return(st, jwtPayload)

\* const wip = JSON.parse(JSON.stringify(jwtPayload))
Clone(st, jwtPayload) ==
  Go([st EXCEPT !.out = JSONParse(JSONStringify(Load(st.heap, jwtPayload)))],
     LAMBDA parsed : Store(parsed, parsed.out[2]))

\* mappedArray.push(value)
Push(st, mappedArray, value) ==
  [st EXCEPT !.heap[mappedArray[2]] = JArr(Append(@[2], value))]
\* wip[key] = mapped, for the i-th entry of the object or array passed in.
Assign(st, wip, i, key, mapped) ==
  [st EXCEPT !.heap[wip[2]] = SetEntry(@, i, key, mapped)]

\* A faulty call: it goes through a second activation of itself.
CalledTwice(depth) == depth + 2

\* The depth of a call made by a call at depth; the caller's call of
\* expandDisclosures is at depth 0.
Called(depth) == depth + 1

\* A call is entered at depth.
Entered(st, depth) == [st EXCEPT !.deepest = IF depth > @ THEN depth ELSE @]
\* A call returns or throws: the objects that existed when it was entered
\* (entry is the machine then) are compared with what they are now.
Returned(entry, st) ==
  [st EXCEPT !.intact = @ /\ st.map = entry.map
                          /\ \A a \in DOMAIN entry.heap : st.heap[a] = entry.heap[a]]

RECURSIVE expandDisclosuresOnHeap(_, _, _, _)
RECURSIVE PushElements(_, _, _, _, _, _)
RECURSIVE AssignDisclosuresOnHeap(_, _, _, _, _, _)
RECURSIVE ExpandEntriesOnHeap(_, _, _, _, _, _)

\* One turn of the loop of expandArrayElements.
ExpandElementOnHeap(st, element, recurse, depth, mappedArray) ==
  IF ~(IsRef(element) \/ element = JNull) THEN Push(st, mappedArray, element)
  ELSE IF element = JNull THEN Throw(st, "TypeError")
  ELSE IF IsObj(Cell(st, element)) /\ HasOwn(Cell(st, element), "...")
       THEN Go([st EXCEPT !.out = ExpandWrapper(GetProp(Cell(st, element), "..."), st.map)],
               LAMBDA parsed :
                 IF parsed.out[2] = <<>> THEN parsed
                 ELSE Go(Store([parsed EXCEPT !.spliced = Append(@, parsed.out[2][1])],
                               parsed.out[2][1]),
                         LAMBDA s : Push(s, mappedArray, s.out[2])))
  ELSE IF recurse
       THEN Go(expandDisclosuresOnHeap(st, element, recurse, Called(depth)),
               LAMBDA s : Push(s, mappedArray, s.out[2]))
  ELSE Push(st, mappedArray, element)

\* for (const element of arrayElements) { ... } return mappedArray
PushElements(st, arrayElements, recurse, depth, i, mappedArray) ==
  IF i > Len(Cell(st, arrayElements)[2]) THEN Return(st, mappedArray)
  ELSE Go(ExpandElementOnHeap(st, Cell(st, arrayElements)[2][i], recurse, depth,
                              mappedArray),
          LAMBDA s : PushElements(s, arrayElements, recurse, depth, i + 1, mappedArray))

\* expandArrayElements(arrayElements, disclosureMap, recurse), entered at
\* depth: mappedArray is a new array.
expandArrayElementsOnHeap(st, arrayElements, recurse, depth) ==
  Returned(st,
    Go(New(Entered(st, depth), JArr(<<>>)),
       LAMBDA s : PushElements(s, arrayElements, recurse, depth, 1, s.out[2])))

\* the value a disclosed claim is assigned with.
DisclosedValueOnHeap(st, value, recurse, depth) ==
  IF recurse /\ IsRef(value) /\ IsArr(Cell(st, value))
  THEN expandArrayElementsOnHeap(st, value, recurse, Called(depth))
  ELSE IF recurse /\ IsRef(value)
  THEN expandDisclosuresOnHeap(st, value, recurse, Called(depth))
  ELSE Return(st, value)

\* asObjectDisclosures.forEach(...): each disclosed claim assigned onto wip.
AssignDisclosuresOnHeap(st, asObjectDisclosures, recurse, depth, i, wip) ==
  IF i > Len(asObjectDisclosures) THEN st
  ELSE IF InObject(PropertyKey(asObjectDisclosures[i].key), Cell(st, wip))
       THEN Throw(st, "Duplicate key in disclosure")
  ELSE Go(Store([st EXCEPT !.spliced = Append(@, asObjectDisclosures[i].value)],
                asObjectDisclosures[i].value),
          LAMBDA parsed :
            Go(DisclosedValueOnHeap(parsed, parsed.out[2], recurse, depth),
               LAMBDA s :
                 AssignDisclosuresOnHeap(
                   [s EXCEPT !.heap[wip[2]] =
                      SetProp(@, PropertyKey(asObjectDisclosures[i].key), s.out[2])],
                   asObjectDisclosures, recurse, depth, i + 1, wip)))

\* The branch key === '_sd'.
ExpandSdOnHeap(st, value, recurse, depth, wip) ==
  IF ~(IsRef(value) /\ IsArr(Cell(st, value))) THEN Throw(st, "TypeError")
  ELSE Go([st EXCEPT !.out = ParseSdValues(Cell(st, value)[2], st.map, 1, <<>>)],
          LAMBDA parsed :
            Go(AssignDisclosuresOnHeap(parsed, parsed.out[2], recurse, depth, 1, wip),
               LAMBDA s : [s EXCEPT !.heap[wip[2]] = DelProp(@, "_sd")]))

\* One turn of the loop of expandDisclosures.
ExpandEntryOnHeap(st, i, key, value, recurse, depth, wip) ==
  IF key = "_sd" THEN ExpandSdOnHeap(st, value, recurse, depth, wip)
  ELSE IF IsRef(value) /\ IsArr(Cell(st, value))
       THEN Go(expandArrayElementsOnHeap(st, value, recurse, Called(depth)),
               LAMBDA s : Assign(s, wip, i, key, s.out[2]))
  ELSE IF recurse /\ (IsRef(value) \/ value = JNull)
       THEN Go(expandDisclosuresOnHeap(st, value, recurse, Called(depth)),
               LAMBDA s : Assign(s, wip, i, key, s.out[2]))
  ELSE st

\* for (const [key, value] of entries) { ... } return wip
ExpandEntriesOnHeap(st, entries, recurse, depth, i, wip) ==
  IF i > Len(entries) THEN Return(st, wip)
  ELSE Go(ExpandEntryOnHeap(st, i, entries[i][1], entries[i][2], recurse, depth, wip),
          LAMBDA s : ExpandEntriesOnHeap(s, entries, recurse, depth, i + 1, wip))

\* expandDisclosures(jwtPayload, disclosureMap, recurse), entered at depth:
\* entries are those of the object passed in, wip is its copy.
expandDisclosuresOnHeap(st, jwtPayload, recurse, depth) ==
  Returned(st,
    IF jwtPayload = JNull THEN Throw(Entered(st, depth), "TypeError")
    ELSE Go(Clone(Entered(st, depth), jwtPayload),
            LAMBDA s : ExpandEntriesOnHeap(s, Entries(Cell(st, jwtPayload)), recurse,
                                           depth, 1, s.out[2])))

\* What the caller gets: the error, or the value returned read off the heap.
ReadOff(st) == IF IsErr(st.out) THEN st.out ELSE Ok(Load(st.heap, st.out[2]))

\* The caller's objects: the payload on a heap of its own, and the map.
Loaded(jwtPayload, disclosureMap) ==
  Store([heap |-> <<>>, map |-> disclosureMap, out |-> Ok(JUndef), deepest |-> 0,
         spliced |-> <<>>, intact |-> TRUE],
        jwtPayload)

(***************************************************************************)
(* Issuer side: sdJwtPayloadHelper.  The n-th disclosure made in one call  *)
(* gets the n-th fresh salt.                                               *)
(***************************************************************************)
RECURSIVE WrapArrayElements(_, _, _, _)
\* One array-element disclosure per element; st holds the salts used so far
\* (n), the wrappers built (array) and the map.
WrapArrayElements(arrayElements, sd_alg, j, st) ==
  IF j > Len(arrayElements) THEN Ok(st)
  ELSE Bind(hashDisclosure(
              createArrayElementDisclosure(arrayElements[j], createSalt(st.n + j), FALSE),
              sd_alg),
            LAMBDA digest :
              WrapArrayElements(arrayElements, sd_alg, j + 1,
                [st EXCEPT !.array = Append(@, JObj(<<<<"...", JStr(digest)>>>>)),
                           !.map = MapSet(@, digest,
                                     createArrayElementDisclosure(
                                       arrayElements[j], createSalt(st.n + j), FALSE))]))

\* One turn of the forEach of sdJwtPayloadHelper.
HelperEntry(key, value, sd_alg, st) ==
  IF IsArr(value)
  THEN Bind(WrapArrayElements(value[2], sd_alg, 1,
                              [n |-> st.n, array |-> <<>>, map |-> st.map]),
            LAMBDA w :
              Ok([st EXCEPT !.n = @ + Len(value[2]),
                            !.map = w.map,
                            !.sdArrayElementWrapper = SetProp(@, key, JArr(w.array))]))
  ELSE Bind(hashDisclosure(
              createObjectPropertyDisclosure(key, value, createSalt(st.n + 1), FALSE),
              sd_alg),
            LAMBDA digest :
              Ok([st EXCEPT !.n = @ + 1,
                            !.map = MapSet(@, digest,
                                      createObjectPropertyDisclosure(
                                        key, value, createSalt(st.n + 1), FALSE)),
                            !.sdArray = Append(@, JStr(digest))]))

RECURSIVE HelperEntries(_, _, _, _)
\* Object.entries(sdClaims).forEach(...)
HelperEntries(entries, sd_alg, i, st) ==
  IF i > Len(entries) THEN Ok(st)
  ELSE Bind(HelperEntry(entries[i][1], entries[i][2], sd_alg, st),
            LAMBDA next : HelperEntries(entries, sd_alg, i + 1, next))

sdJwtPayloadHelper(sdClaims, clearClaims, sd_alg) ==
  Bind(HelperEntries(Entries(sdClaims), sd_alg, 1,
                     [n |-> 0, sdArray |-> <<>>,
                      sdArrayElementWrapper |-> JObj(<<>>), map |-> <<>>]),
       LAMBDA st :
         Ok([sdJwtPayload |->
               Spread(Spread(JObj(<< <<"_sd_alg", JStr(sd_alg)>>,
                                     <<"_sd", JArr(st.sdArray)>> >>),
                             clearClaims),
                      st.sdArrayElementWrapper),
             digestDislosureMap |-> st.map]))

(***************************************************************************)
(* The wire format.  A string that is put together from whole strings and  *)
(* '~' is the sequence of its non-empty pieces and separators.             *)
(***************************************************************************)
EmptyString == B64u(<<>>)
Tilde == <<"~">>
Piece(str) == IF str = EmptyString THEN <<>> ELSE <<str>>

RECURSIVE JoinTilde(_, _)
\* encodedDisclosures.join('~')
JoinTilde(strs, i) ==
  IF i > Len(strs) THEN <<>>
  ELSE (IF i > 1 THEN <<Tilde>> ELSE <<>>) \o Piece(strs[i]) \o JoinTilde(strs, i + 1)

\* `${jwt}~${encodedDisclosures.join('~')}~${kbJwt ? kbJwt : ''}`
formSdJwt(jwt, encodedDisclosures, kbJwt) ==
  Piece(jwt) \o <<Tilde>> \o JoinTilde(encodedDisclosures, 1) \o <<Tilde>>
  \o (IF kbJwt = JUndef THEN <<>> ELSE Piece(kbJwt))

RECURSIVE SplitTilde(_, _, _)
\* sdJwt.split('~'): cur is the part being read.
SplitTilde(text, cur, parts) ==
  IF text = <<>> THEN Append(parts, cur)
  ELSE IF Head(text) = Tilde THEN SplitTilde(Tail(text), EmptyString, Append(parts, cur))
  ELSE SplitTilde(Tail(text), Head(text), parts)
_splitSdJwt(sdJwt) == SplitTilde(sdJwt, EmptyString, <<>>)

\* parts.pop() || '' is the key-binding token; what is left is the token and
\* the disclosures.
splitSdJwt(sdJwt) ==
  LET all == _splitSdJwt(sdJwt)
      parts == SubSeq(all, 1, Len(all) - 1)
  IN [jwt |-> IF parts = <<>> THEN JUndef ELSE Head(parts),
      disclosures |-> IF parts = <<>> THEN <<>> ELSE Tail(parts),
      kbJwt |-> all[Len(all)]]

(***************************************************************************)
(* The signed token (JWT.ts, outside this model's sources): a token is     *)
(* its payload and whether its signature is the issuer's.                  *)
(***************************************************************************)
Jwt(payload, signed) == <<"jwt", payload, signed>>
createJWT(payload) == Jwt(payload, TRUE)
decodeJWT(jwt) ==
  IF jwt[1] = "jwt" THEN Ok([payload |-> jwt[2]]) ELSE Err("invalid_argument")
verifyJWT(jwt) ==
  IF jwt[1] # "jwt" THEN Err("invalid_argument")
  ELSE IF ~jwt[3] THEN Err("invalid_signature")
  ELSE Ok([verified |-> TRUE, payload |-> jwt[2]])

createSdJWT(payload, disclosures, kb_jwt) ==
  formSdJwt(createJWT(payload), disclosures, kb_jwt)

\* payload._sd_alg || DEFAULT_SD_ALG
SdAlgOf(payload) ==
  IF GetProp(payload, "_sd_alg") \in {JUndef, JNull, JStr(""), JNum(0), JBool(FALSE)}
  THEN DEFAULT_SD_ALG
  ELSE IF GetProp(payload, "_sd_alg")[1] = "str" THEN GetProp(payload, "_sd_alg")[2]
  ELSE ToString(GetProp(payload, "_sd_alg"))

\* decodeSdJWT after splitSdJwt: the token decoded, the digests indexed, the
\* payload expanded, _sd_alg deleted from the result's top level.
DecodeSplit(split, recurse) ==
  Bind(decodeJWT(split.jwt),
       LAMBDA decodedJwt :
         Bind(buildDigestDisclosureMap(split.disclosures, SdAlgOf(decodedJwt.payload)),
              LAMBDA disclosureMap :
                Bind(expandDisclosures(decodedJwt.payload, disclosureMap, recurse),
                     LAMBDA converted :
                       Ok([payload |-> DelProp(converted, "_sd_alg"),
                           disclosures |-> split.disclosures,
                           kb_jwt |-> IF split.kbJwt = EmptyString THEN JUndef
                                      ELSE split.kbJwt]))))

decodeSdJWT(sdJwt, recurse) == DecodeSplit(splitSdJwt(sdJwt), recurse)

\* A faulty order: the disclosures are hashed and expanded first, and the
\* signature is verified afterwards.
DecodesBeforeVerifying(sdJwt) ==
  Bind(decodeSdJWT(sdJwt, FALSE),
       LAMBDA decoded :
         Bind(verifyJWT(splitSdJwt(sdJwt).jwt),
              LAMBDA verified : Ok([verified |-> TRUE, payload |-> decoded.payload])))

\* await verifyJWT(jwt, options): what follows runs only once the promise
\* is fulfilled; a rejection is the rejection of verifySdJWT.
verifySdJWT(sdJwt) ==
  Bind(verifyJWT(splitSdJwt(sdJwt).jwt),
       LAMBDA verified :
         Bind(decodeSdJWT(sdJwt, FALSE),
              LAMBDA decoded : Ok([verified |-> TRUE, payload |-> decoded.payload])))

(***************************************************************************)
(* The JWE envelope (encryption/JWE.ts).  A JWE and a recipient are JSON   *)
(* objects whose strings are base64url strings.                            *)
(***************************************************************************)
base64ToBytes(s) == Uint8Array(s[2])

\* JavaScript's truthiness of a value: undefined, null, '', 0 and false are
\* falsy.
Truthy(v) == v \notin {JUndef, JNull, EmptyString, JStr(""), JNum(0), JBool(FALSE)}

(***************************************************************************)
(* The collaborators (encryption/types.ts and the encrypters, outside this *)
(* model's sources), after the interfaces the specification lists.  An     *)
(* encrypter is [alg, enc, key, keyWrap]: keyWrap says whether it has the  *)
(* optional operations encryptCek and genEpk.  A decrypter is [alg, enc,   *)
(* key].  Content encryption keeps the length of the cleartext; the tag    *)
(* binds the key, the authenticated data and the ciphertext.               *)
(***************************************************************************)
Iv == Uint8Array(<<"iv">>)
\* The key a direct encrypter or decrypter seals and opens with.
DirKey(party) == <<"dir", party.key>>
\* The content-encryption key an encrypter makes.
NewCek(encrypter) == <<"cek", encrypter.key>>
Mac(key, aad, ciphertext) == <<"mac", key, aad, ciphertext>>
SealContent(key, cleartext, aad) ==
  [ciphertext |-> Uint8Array([i \in DOMAIN cleartext[2] |-> <<key, cleartext[2][i]>>]),
   tag |-> Uint8Array(<<Mac(key, aad, [i \in DOMAIN cleartext[2] |-> <<key, cleartext[2][i]>>])>>)]
\* The cleartext, or null when the tag does not verify under the key.
OpenContent(key, sealed, aad) ==
  IF sealed.tag[2] = <<Mac(key, aad, sealed.ciphertext[2])>>
  THEN Uint8Array([i \in DOMAIN sealed.ciphertext[2] |-> sealed.ciphertext[2][i][2]])
  ELSE JNull

\* toSealed(ciphertext, tag) of util.ts: both decoded, side by side.
toSealed(ciphertext, tag) ==
  [ciphertext |-> base64ToBytes(ciphertext), tag |-> base64ToBytes(tag)]

\* What is authenticated: the protected header string, and the AAD if any.
AadInput(protected, aad) == <<protected, aad>>

\* genEpk?.(): an ephemeral key pair, if the encrypter has the operation.
GenEpk(encrypter) ==
  IF encrypter.keyWrap
  THEN JObj(<< <<"publicKeyJWK", JStr("epk:" \o encrypter.key)>> >>)
  ELSE JUndef

\* encryptCek(cek, epk): the recipient entry that wraps cek for the
\* encrypter's key.
EncryptCek(encrypter, cek, epk) ==
  JObj(<< <<"header",
            JObj(<< <<"alg", JStr(encrypter.alg)>>,
                    <<"epk", IF epk = JUndef THEN JStr("epk:" \o encrypter.key)
                             ELSE GetProp(epk, "publicKeyJWK")>> >>)>>,
          <<"encrypted_key",
            bytesToBase64url(Uint8Array(<< <<"wrap", encrypter.key, cek>> >>))>> >>)

\* The protected header as it is sent: base64url of its JSON text.
EncodeHeader(header) == bytesToBase64url(stringToBytes(JSONStringify(header)))

EncryptWith(key, cleartext, protected, aad, recipient, cek) ==
  [ciphertext |-> SealContent(key, cleartext, AadInput(protected, aad)).ciphertext,
   tag |-> SealContent(key, cleartext, AadInput(protected, aad)).tag,
   iv |-> Iv,
   protectedHeader |-> protected,
   recipient |-> recipient,
   cek |-> cek]

\* encrypter.encrypt(cleartext, protectedHeader, aad, epk): a direct
\* encrypter seals under its own key; another makes a content-encryption
\* key, seals under it, and wraps it for its recipient.
Encrypt(encrypter, cleartext, protectedHeader, aad, epk) ==
  IF encrypter.alg = "dir"
  THEN EncryptWith(DirKey(encrypter), cleartext,
                   EncodeHeader(Spread(protectedHeader,
                                       JObj(<< <<"alg", JStr("dir")>>,
                                               <<"enc", JStr(encrypter.enc)>> >>))),
                   IF aad = JUndef THEN JUndef ELSE bytesToBase64url(aad),
                   JUndef, JUndef)
  ELSE EncryptWith(NewCek(encrypter), cleartext,
                   EncodeHeader(Spread(protectedHeader,
                                       JObj(<< <<"enc", JStr(encrypter.enc)>> >>))),
                   IF aad = JUndef THEN JUndef ELSE bytesToBase64url(aad),
                   EncryptCek(encrypter, NewCek(encrypter), epk),
                   NewCek(encrypter))

\* The content-encryption key a recipient entry gives to the holder of key:
\* null when it was wrapped for another key.
UnwrapCek(recipient, key) ==
  IF base64ToBytes(GetProp(recipient, "encrypted_key"))[2][1][2] = key
  THEN base64ToBytes(GetProp(recipient, "encrypted_key"))[2][1][3]
  ELSE JNull

\* decrypter.decrypt(sealed, iv, aad, recipient?): the cleartext, or null.
Decrypt(decrypter, sealed, iv, aad, recipient) ==
  IF decrypter.alg = "dir" \/ recipient = JUndef
  THEN OpenContent(DirKey(decrypter), sealed, aad)
  ELSE IF UnwrapCek(recipient, decrypter.key) = JNull THEN JNull
  ELSE OpenContent(UnwrapCek(recipient, decrypter.key), sealed, aad)

(***************************************************************************)
(* validateJWE, encodeJWE, createJWE, decryptJWE.                          *)
(***************************************************************************)
validateJWE(jwe) ==
  IF ~(Truthy(GetProp(jwe, "protected")) /\ Truthy(GetProp(jwe, "iv"))
       /\ Truthy(GetProp(jwe, "ciphertext")) /\ Truthy(GetProp(jwe, "tag")))
  THEN Err("bad_jwe: missing properties")
  ELSE IF Truthy(GetProp(jwe, "recipients"))
          /\ \E i \in DOMAIN GetProp(jwe, "recipients")[2] :
               ~(Truthy(GetProp(GetProp(jwe, "recipients")[2][i], "header"))
                 /\ Truthy(GetProp(GetProp(jwe, "recipients")[2][i], "encrypted_key")))
  THEN Err("bad_jwe: malformed recipients")
  ELSE Ok(jwe)

\* if (aad) jwe.aad = ...; if (recipient) jwe.recipients = [recipient]
encodeJWE(encryptionResult, aad) ==
  JObj(<< <<"protected", encryptionResult.protectedHeader>>,
          <<"iv", bytesToBase64url(encryptionResult.iv)>>,
          <<"ciphertext", bytesToBase64url(encryptionResult.ciphertext)>>,
          <<"tag", bytesToBase64url(encryptionResult.tag)>> >>
       \o (IF aad = JUndef THEN <<>> ELSE << <<"aad", bytesToBase64url(aad)>> >>)
       \o (IF encryptionResult.recipient = JUndef THEN <<>>
           ELSE << <<"recipients", JArr(<<encryptionResult.recipient>>)>> >>))

\* jwe?.recipients?.push(recipient)
PushRecipient(jwe, recipient) ==
  IF jwe = JUndef \/ ~HasOwn(jwe, "recipients") THEN jwe
  ELSE SetProp(jwe, "recipients", JArr(Append(GetProp(jwe, "recipients")[2], recipient)))

\* What a call hands back, with the collaborator operations it invoked, in
\* the order it invoked them.
Run(result, calls) == [result |-> result, calls |-> calls]
\* A thrown Error ends the call; another outcome goes on to F.
AndThen(run, F(_)) == IF IsErr(run.result) THEN run ELSE F(run)

\* The first encrypter encrypts and its key is kept.
FirstEncrypt(encryptionResult, aad, calls) ==
  [cek |-> encryptionResult.cek, jwe |-> encodeJWE(encryptionResult, aad), calls |-> calls]

\* A faulty turn: the encrypter wraps a key of its own making, not the
\* one the content was sealed under.
WrapOwnCek(encrypter, st, epk) ==
  IF encrypter.keyWrap
  THEN [st EXCEPT !.jwe = PushRecipient(@, EncryptCek(encrypter, NewCek(encrypter), epk)),
                  !.calls = Append(@, <<"encryptCek", encrypter.key, epk>>)]
  ELSE st

\* A later encrypter wraps the kept key, if it has encryptCek.
WrapForRecipient(encrypter, st, epk) ==
  IF encrypter.keyWrap
  THEN [st EXCEPT !.jwe = PushRecipient(@, EncryptCek(encrypter, st.cek, epk)),
                  !.calls = Append(@, <<"encryptCek", encrypter.key, epk>>)]
  ELSE st

\* One turn of the loop of createJWE; st holds cek and jwe, and the calls
\* made so far.
SealStep(encrypter, st, cleartext, protectedHeader, aad, epk) ==
  IF st.cek = JUndef
  THEN FirstEncrypt(Encrypt(encrypter, cleartext, protectedHeader, aad, epk), aad,
                    Append(st.calls, <<"encrypt", encrypter.key, epk>>))
  ELSE WrapForRecipient(encrypter, st, epk)

RECURSIVE SealLoop(_, _, _, _, _, _, _)
\* for (const encrypter of encrypters) { ... } return jwe
SealLoop(encrypters, i, st, cleartext, protectedHeader, aad, epk) ==
  IF i > Len(encrypters) THEN Run(Ok(st.jwe), st.calls)
  ELSE SealLoop(encrypters, i + 1,
                SealStep(encrypters[i], st, cleartext, protectedHeader, aad, epk),
                cleartext, protectedHeader, aad, epk)

\* With useSingleEphemeralKey the first encrypter's alg and the one
\* ephemeral public key go into the protected header.
SingleEpkHeader(protectedHeader, encrypter, epk) ==
  Spread(protectedHeader,
         JObj(<< <<"alg", JStr(encrypter.alg)>>,
                 <<"epk", IF epk = JUndef THEN JUndef
                          ELSE GetProp(epk, "publicKeyJWK")>> >>))

\* genEpk?.() is invoked if the first encrypter has it.
GenEpkCalls(encrypter) ==
  IF encrypter.keyWrap THEN <<<<"genEpk", encrypter.key>>>> ELSE <<>>

\* A faulty branch: the ephemeral key goes into the header, but is not
\* handed to the encrypters.
KeepsEpkToItself(cleartext, encrypters, protectedHeader, aad, useSingleEphemeralKey) ==
  IF useSingleEphemeralKey
  THEN SealLoop(encrypters, 1,
                [cek |-> JUndef, jwe |-> JUndef, calls |-> GenEpkCalls(encrypters[1])],
                cleartext,
                SingleEpkHeader(protectedHeader, encrypters[1], GenEpk(encrypters[1])),
                aad, JUndef)
  ELSE SealLoop(encrypters, 1, [cek |-> JUndef, jwe |-> JUndef, calls |-> <<>>], cleartext,
                protectedHeader, aad, JUndef)

\* The multi-recipient branch once the encrypters are found compatible.
SealAll(cleartext, encrypters, protectedHeader, aad, useSingleEphemeralKey) ==
  IF useSingleEphemeralKey
  THEN SealLoop(encrypters, 1,
                [cek |-> JUndef, jwe |-> JUndef, calls |-> GenEpkCalls(encrypters[1])],
                cleartext,
                SingleEpkHeader(protectedHeader, encrypters[1], GenEpk(encrypters[1])),
                aad, GenEpk(encrypters[1]))
  ELSE SealLoop(encrypters, 1, [cek |-> JUndef, jwe |-> JUndef, calls |-> <<>>], cleartext,
                protectedHeader, aad, JUndef)

\* A faulty order: the encrypters are compared after they were put to work.
ChecksEncAfterSealing(cleartext, encrypters, protectedHeader, aad, useSingleEphemeralKey) ==
  IF encrypters[1].alg = "dir"
  THEN IF Len(encrypters) > 1
       THEN Run(Err("not_supported: Can only do \"dir\" encryption to one key."), <<>>)
       ELSE Run(Ok(encodeJWE(Encrypt(encrypters[1], cleartext, protectedHeader, aad,
                                     JUndef), aad)),
                <<<<"encrypt", encrypters[1].key, JUndef>>>>)
  ELSE IF \E i \in DOMAIN encrypters : encrypters[i].enc # encrypters[1].enc
       THEN Run(Err("invalid_argument: Incompatible encrypters passed"),
                SealAll(cleartext, encrypters, protectedHeader, aad,
                        useSingleEphemeralKey).calls)
  ELSE SealAll(cleartext, encrypters, protectedHeader, aad, useSingleEphemeralKey)

createJWE(cleartext, encrypters, protectedHeader, aad, useSingleEphemeralKey) ==
  IF encrypters[1].alg = "dir"
  THEN IF Len(encrypters) > 1
       THEN Run(Err("not_supported: Can only do \"dir\" encryption to one key."), <<>>)
       ELSE Run(Ok(encodeJWE(Encrypt(encrypters[1], cleartext, protectedHeader, aad,
                                          JUndef), aad)),
                     <<<<"encrypt", encrypters[1].key, JUndef>>>>)
  ELSE IF \E i \in DOMAIN encrypters : encrypters[i].enc # encrypters[1].enc
       THEN Run(Err("invalid_argument: Incompatible encrypters passed"), <<>>)
  ELSE SealAll(cleartext, encrypters, protectedHeader, aad, useSingleEphemeralKey)

\* Object.assign(recipient.header, protHeader)
MergedRecipient(recipient, protHeader) ==
  SetProp(recipient, "header", Spread(GetProp(recipient, "header"), protHeader))

\* One turn of the scan; st holds cleartext, the calls made so far and
\* jwe.recipients: Object.assign writes into the recipient of the envelope.
ScanStep(recipient, i, st, protHeader, decrypter, sealed, iv, aad) ==
  IF GetProp(GetProp(MergedRecipient(recipient, protHeader), "header"), "alg")
       = JStr(decrypter.alg)
  THEN [cleartext |-> Decrypt(decrypter, sealed, iv, aad,
                              MergedRecipient(recipient, protHeader)),
        calls |-> Append(st.calls, <<"decrypt", i>>),
        recipients |-> [st.recipients EXCEPT ![i] = MergedRecipient(recipient, protHeader)]]
  ELSE [st EXCEPT !.recipients[i] = MergedRecipient(recipient, protHeader)]

RECURSIVE ScansToTheEnd(_, _, _, _, _, _, _, _)
\* A faulty scan: it goes on after a cleartext was found.
ScansToTheEnd(recipients, i, st, protHeader, decrypter, sealed, iv, aad) ==
  IF i > Len(recipients) THEN st
  ELSE ScansToTheEnd(recipients, i + 1,
                     ScanStep(recipients[i], i, st, protHeader, decrypter, sealed, iv, aad),
                     protHeader, decrypter, sealed, iv, aad)

RECURSIVE ScanRecipients(_, _, _, _, _, _, _, _)
\* for (let i = 0; !cleartext && i < jwe.recipients.length; i++) { ... }
ScanRecipients(recipients, i, st, protHeader, decrypter, sealed, iv, aad) ==
  IF st.cleartext # JNull \/ i > Len(recipients) THEN st
  ELSE ScanRecipients(recipients, i + 1,
                      ScanStep(recipients[i], i, st, protHeader, decrypter, sealed, iv, aad),
                      protHeader, decrypter, sealed, iv, aad)

\* jwe.aad ? `${jwe.protected}.${jwe.aad}` : jwe.protected
AadOf(jwe) ==
  AadInput(GetProp(jwe, "protected"),
           IF Truthy(GetProp(jwe, "aad")) THEN GetProp(jwe, "aad") ELSE JUndef)

\* A faulty end: whatever the scan left is returned, null included.
ReturnsWhateverIsLeft(st) ==
  [result |-> Ok(st.cleartext), calls |-> st.calls, recipients |-> st.recipients]

\* if (cleartext === null) throw ...; return cleartext
Cleartext(st) ==
  [result |-> IF st.cleartext = JNull THEN Err("failure: Failed to decrypt")
              ELSE Ok(st.cleartext),
   calls |-> st.calls, recipients |-> st.recipients]

\* decryptJWE once the envelope is validated and its protected header parsed.
\* The direct call is <<"decrypt", 0>>: it is given no recipient.
DecryptValid(jwe, protHeader, decrypter, calls) ==
  IF GetProp(protHeader, "enc") # JStr(decrypter.enc)
  THEN Run(Err("not_supported: Decrypter does not supported"), calls)
  ELSE IF GetProp(protHeader, "alg") = JStr("dir") /\ decrypter.alg = "dir"
  THEN Cleartext([cleartext |-> Decrypt(decrypter,
                                        toSealed(GetProp(jwe, "ciphertext"),
                                                 GetProp(jwe, "tag")),
                                        base64ToBytes(GetProp(jwe, "iv")), AadOf(jwe), JUndef),
                  calls |-> Append(calls, <<"decrypt", 0>>), recipients |-> <<>>])
  ELSE IF ~Truthy(GetProp(jwe, "recipients")) \/ GetProp(jwe, "recipients")[2] = <<>>
  THEN Run(Err("bad_jwe: missing recipients"), calls)
  ELSE Cleartext(ScanRecipients(GetProp(jwe, "recipients")[2], 1,
                                [cleartext |-> JNull, calls |-> calls,
                                 recipients |-> GetProp(jwe, "recipients")[2]],
                                protHeader,
                                decrypter,
                                toSealed(GetProp(jwe, "ciphertext"), GetProp(jwe, "tag")),
                                base64ToBytes(GetProp(jwe, "iv")), AadOf(jwe)))

\* The envelope as the call leaves it: the recipients the scan went through
\* are the ones it wrote into.
EnvelopeAfter(jwe, run) ==
  [result |-> run.result, calls |-> run.calls,
   jweAfter |-> IF "recipients" \in DOMAIN run /\ run.recipients # <<>>
                THEN SetProp(jwe, "recipients", JArr(run.recipients))
                ELSE jwe]

decryptJWE(jwe, decrypter) ==
  EnvelopeAfter(jwe,
    AndThen(Run(validateJWE(jwe), <<>>),
            LAMBDA valid :
              AndThen(Run(JSONParse(decodeBase64url(GetProp(jwe, "protected"))),
                               <<<<"JSON.parse">>>>),
                      LAMBDA parsed :
                        DecryptValid(jwe, parsed.result[2], decrypter, parsed.calls))))

(***************************************************************************)
(* The inputs the model draws.                                             *)
(***************************************************************************)
\* How many claims the issuer hands to sdJwtPayloadHelper as sdClaims.
MaxSdClaims == 2
\* How many disclosures a holder presents with a token.
MaxPresented == 3

ObjK(v) == JObj(<< <<"k", v>> >>)

\* Values of redacted claims: primitives, null, nested objects and arrays.
SdValues ==
  { JStr("x"), JNull, ObjK(JNum(1)),
    ObjK(JArr(<<JBool(TRUE), JNull>>)),
    JArr(<<JStr("x"), ObjK(JNum(1))>>) }

\* Values of the clear claim c.
ClearValues ==
  { JStr("x"), JNull, ObjK(JObj(<< <<"m", JNum(1)>> >>)), ObjK(JNull),
    JArr(<<JBool(TRUE), ObjK(JStr("x"))>>), JArr(<<JArr(<<JStr("x")>>)>>),
    JArr(<<JNull>>) }

\* Names of redacted claims, in the order the issuer lists them.
SdKeys == <<"a", "b", "length">>

\* The ascending index sets of size at most n into a sequence of length len.
IndexSets(len, n) == {S \in SUBSET (1 .. len) : Cardinality(S) <= n}
RECURSIVE SortedSeq(_)
\* The elements of a set of numbers, ascending.
SortedSeq(S) ==
  IF S = {} THEN <<>>
  ELSE LET m == CHOOSE x \in S : \A y \in S : x <= y IN <<m>> \o SortedSeq(S \ {m})
Reverse(seq) == [i \in DOMAIN seq |-> seq[Len(seq) + 1 - i]]

\* The sdClaims objects: a choice of names, each with a value.
SdClaimSets ==
  { JObj([i \in DOMAIN SortedSeq(S) |-> <<SdKeys[SortedSeq(S)[i]], f[SortedSeq(S)[i]]>>]) :
      <<S, f>> \in UNION { {S} \X [S -> SdValues] : S \in IndexSets(Len(SdKeys), MaxSdClaims) } }

\* The clearClaims objects: no claim, or the claim c.
ClearClaimSets == {JObj(<<>>)} \cup {JObj(<< <<"c", v>> >>) : v \in ClearValues}

(***************************************************************************)
(* Payloads an issuer builds by hand from the disclosure functions, after  *)
(* the address examples of the tests: one node N = {c, _sd: [D1, D2]}      *)
(* placed flat, nested, inside a disclosed claim, inside an array, or      *)
(* inside a disclosed array element.                                       *)
(***************************************************************************)
Templates == {"flat", "structured", "structuredAlg", "recursive", "inArray", "arrayElement"}
CraftKeys == {"a", "c", "exp", "nbf", "iat", "0", "length", "toString"}
CraftKeys2 == {"a", "b", "c"}

Digest(d) == JStr(hashDisclosure(d, DEFAULT_SD_ALG)[2])

Crafted(template, k1, k2) ==
  LET D1 == createObjectPropertyDisclosure(k1, JStr("v"), createSalt(1), FALSE)
      D2 == createObjectPropertyDisclosure(k2, JStr("w"), createSalt(2), TRUE)
      N == JObj(<< <<"c", JStr("x")>>, <<"_sd", JArr(<<Digest(D1), Digest(D2)>>)>> >>)
      D3 == IF template = "recursive"
            THEN createObjectPropertyDisclosure("addr", N, createSalt(3), FALSE)
            ELSE createArrayElementDisclosure(N, createSalt(3), FALSE)
      alg == <<"_sd_alg", JStr(DEFAULT_SD_ALG)>>
      payload ==
        CASE template = "flat" -> SetProp(N, "_sd_alg", JStr(DEFAULT_SD_ALG))
          [] template = "structured" -> JObj(<<alg, <<"addr", N>> >>)
          [] template = "structuredAlg" ->
               JObj(<<alg, <<"addr", SetProp(N, "_sd_alg", JStr(DEFAULT_SD_ALG))>> >>)
          [] template = "recursive" -> JObj(<<alg, <<"_sd", JArr(<<Digest(D3)>>)>> >>)
          [] template = "inArray" -> JObj(<<alg, <<"arr", JArr(<<N, JStr("p")>>)>> >>)
          [] OTHER ->
               JObj(<<alg, <<"arr", JArr(<<JObj(<< <<"...", Digest(D3)>> >>), JStr("p")>>)>> >>)
  IN [kind |-> template,
      sdClaims |-> JObj(<<>>), clearClaims |-> JObj(<<>>),
      payload |-> payload,
      disclosures |-> IF template \in {"recursive", "arrayElement"}
                      THEN <<D1, D2, D3>> ELSE <<D1, D2>>,
      nodeKeys |-> <<k1, k2>>,
      nodeParents |-> IF template \in {"recursive", "arrayElement"} THEN {3} ELSE {}]

\* How many encrypters createJWE is given.
MaxRecipients == 2
\* How many bytes a cleartext has.
MaxCleartextLen == 1

KeyWrapAlgs == {"ECDH-ES+XC20PKW", "ECDH-1PU+XC20PKW"}
Encs == {"XC20P", "A256GCM"}
KeyName(i) == "k" \o ToString(i)

\* The encrypters a caller may put at place i of the list: a direct one, or
\* a key-wrapping one with or without the optional operations.
EncryptersAt(i) ==
  {[alg |-> "dir", enc |-> enc, key |-> KeyName(i), keyWrap |-> FALSE] : enc \in Encs}
  \cup {[alg |-> alg, enc |-> enc, key |-> KeyName(i), keyWrap |-> w] :
          alg \in KeyWrapAlgs, enc \in Encs, w \in BOOLEAN}
EncrypterLists ==
  UNION {{es \in [1 .. n -> UNION {EncryptersAt(i) : i \in 1 .. n}] :
            \A i \in 1 .. n : es[i] \in EncryptersAt(i)} : n \in 1 .. MaxRecipients}
\* Decrypters: for a key of some place of the list, or for a key of none (k0).
Decrypters ==
  {[alg |-> alg, enc |-> enc, key |-> KeyName(i)] :
     alg \in {"dir"} \cup KeyWrapAlgs, enc \in Encs, i \in 0 .. MaxRecipients}
Cleartexts ==
  {Uint8Array(b) : b \in UNION {[1 .. n -> {0, 255}] : n \in 0 .. MaxCleartextLen}}
\* No AAD, or some.
Aads == {JUndef, Uint8Array(<<1>>)}

\* The envelope with the j-th recipient entry lacking the member name.
WithoutMember(jwe, j, name) ==
  SetProp(jwe, "recipients",
          JArr([GetProp(jwe, "recipients")[2] EXCEPT ![j] = DelProp(@, name)]))

\* Envelopes a recipient may be handed in place of the sealed one: a field
\* gone, another tag, the recipient list gone or empty, a recipient entry
\* without its header or its key.
Altered(jwe) ==
  {DelProp(jwe, f) : f \in {"protected", "iv", "ciphertext", "tag"}}
  \cup {SetProp(jwe, "tag", bytesToBase64url(Uint8Array(<<<<"forged">>>>)))}
  \cup (IF HasOwn(jwe, "recipients")
        THEN {DelProp(jwe, "recipients"), SetProp(jwe, "recipients", JArr(<<>>))}
             \cup {WithoutMember(jwe, j, name) :
                     j \in DOMAIN GetProp(jwe, "recipients")[2],
                     name \in {"header", "encrypted_key"}}
        ELSE {})

NoEnvelope ==
  [op |-> "none", cleartext |-> Uint8Array(<<>>), encrypters |-> <<>>, aad |-> JUndef,
   useSingleEphemeralKey |-> FALSE, result |-> Err("none"), calls |-> <<>>]
NoOpened ==
  [op |-> "none", decrypter |-> JUndef, jwe |-> JUndef, result |-> Err("none"),
   calls |-> <<>>, jweAfter |-> JUndef]

NoToken ==
  [kind |-> "none", sdClaims |-> JObj(<<>>), clearClaims |-> JObj(<<>>),
   payload |-> JObj(<<>>), disclosures |-> <<>>, nodeKeys |-> <<>>, nodeParents |-> {}]
NoCall == [op |-> "none", recurse |-> FALSE, result |-> Err("none")]

(***************************************************************************)
(* The state: the issuer's token, the SD-JWT a holder presents, and the    *)
(* verifier's last call with its result; the last createJWE call with the  *)
(* envelope it returned, and the last decryptJWE call on that envelope.    *)
(***************************************************************************)
VARIABLES token, presented, sdJwt, call, envelope, opened

vars == <<token, presented, sdJwt, call, envelope, opened>>
sdVars == <<token, presented, sdJwt, call>>
jweVars == <<envelope, opened>>

Init ==
  /\ token = NoToken
  /\ presented = <<>>
  /\ sdJwt = <<>>
  /\ call = NoCall
  /\ envelope = NoEnvelope
  /\ opened = NoOpened

\* The issuer calls sdJwtPayloadHelper(sdClaims, clearClaims).
IssueHelper ==
  /\ token.kind = "none"
  /\ \E sdClaims \in SdClaimSets, clearClaims \in ClearClaimSets :
       LET r == sdJwtPayloadHelper(sdClaims, clearClaims, DEFAULT_SD_ALG) IN
       /\ IsOk(r)
       /\ token' = [kind |-> "helper", sdClaims |-> sdClaims, clearClaims |-> clearClaims,
                    payload |-> r[2].sdJwtPayload,
                    disclosures |-> MapValues(r[2].digestDislosureMap),
                    nodeKeys |-> <<>>, nodeParents |-> {}]
  /\ UNCHANGED <<presented, sdJwt, call, jweVars>>

\* The issuer builds a structured payload by hand.
IssueCrafted ==
  /\ token.kind = "none"
  /\ \E template \in Templates, k1 \in CraftKeys, k2 \in CraftKeys2 :
       token' = Crafted(template, k1, k2)
  /\ UNCHANGED <<presented, sdJwt, call, jweVars>>

\* The round trip of the tests: the helper's payload expanded against the
\* helper's whole map.
ExpandAll ==
  /\ token.kind # "none" /\ sdJwt = <<>> /\ call.op = "none"
  /\ \E recurse \in BOOLEAN :
       call' = [op |-> "expandDisclosures", recurse |-> recurse,
                result |-> expandDisclosures(token.payload,
                             buildDigestDisclosureMap(token.disclosures, DEFAULT_SD_ALG)[2],
                             recurse)]
  /\ UNCHANGED <<token, presented, sdJwt, jweVars>>

\* expandDisclosures(payload, map, recurse) with the caller's objects kept:
\* the map holds some of the token's disclosures; before and after are the
\* caller's objects and map when the call is made and when it has ended.
ExpandKept ==
  /\ token.kind # "none" /\ sdJwt = <<>> /\ call.op = "none"
  /\ \E S \in IndexSets(Len(token.disclosures), MaxPresented), recurse \in BOOLEAN :
       call' = [op |-> "expandDisclosures of kept objects", recurse |-> recurse,
                disclosed |-> S,
                before |->
                  Loaded(token.payload,
                         buildDigestDisclosureMap(
                           [i \in DOMAIN SortedSeq(S) |-> token.disclosures[SortedSeq(S)[i]]],
                           DEFAULT_SD_ALG)[2]),
                after |->
                  expandDisclosuresOnHeap(
                    Loaded(token.payload,
                           buildDigestDisclosureMap(
                             [i \in DOMAIN SortedSeq(S) |-> token.disclosures[SortedSeq(S)[i]]],
                             DEFAULT_SD_ALG)[2]),
                    Ref(Len(Loaded(token.payload, <<>>).heap)), recurse, 0),
                result |->
                  ReadOff(expandDisclosuresOnHeap(
                    Loaded(token.payload,
                           buildDigestDisclosureMap(
                             [i \in DOMAIN SortedSeq(S) |-> token.disclosures[SortedSeq(S)[i]]],
                             DEFAULT_SD_ALG)[2]),
                    Ref(Len(Loaded(token.payload, <<>>).heap)), recurse, 0))]
  /\ UNCHANGED <<token, presented, sdJwt, jweVars>>

\* The holder presents some of the disclosures, in the issuer's order or
\* reversed: createSdJWT / formSdJwt.
Present ==
  /\ token.kind # "none" /\ sdJwt = <<>> /\ call.op = "none"
  /\ \E S \in IndexSets(Len(token.disclosures), MaxPresented), reversed \in BOOLEAN :
       /\ reversed => Cardinality(S) >= 2
       /\ presented' = IF reversed THEN Reverse(SortedSeq(S)) ELSE SortedSeq(S)
       /\ sdJwt' = createSdJWT(token.payload,
                               [i \in DOMAIN presented' |-> token.disclosures[presented'[i]]],
                               JUndef)
  /\ UNCHANGED <<token, call, jweVars>>

\* The verifier calls decodeSdJWT(sdJwt, recurse).
Decode ==
  /\ sdJwt # <<>> /\ call.op = "none"
  /\ \E recurse \in BOOLEAN :
       call' = [op |-> "decodeSdJWT", recurse |-> recurse,
                result |-> decodeSdJWT(sdJwt, recurse)]
  /\ UNCHANGED <<token, presented, sdJwt, jweVars>>

\* The verifier calls verifySdJWT(sdJwt) of the string as it arrives: with
\* the issuer's signature, or with a signed-token segment whose signature
\* is not the issuer's.
Verify ==
  /\ sdJwt # <<>> /\ call.op = "none"
  /\ \E signed \in BOOLEAN :
       call' = [op |-> "verifySdJWT", recurse |-> FALSE,
                sdJwt |-> <<Jwt(Head(sdJwt)[2], signed)>> \o Tail(sdJwt),
                result |-> verifySdJWT(<<Jwt(Head(sdJwt)[2], signed)>> \o Tail(sdJwt))]
  /\ UNCHANGED <<token, presented, sdJwt, jweVars>>

Next ==
  \/ IssueHelper \/ IssueCrafted \/ ExpandAll \/ ExpandKept \/ Present \/ Decode
  \/ Verify

Spec == Init /\ [][Next]_vars

\* A caller seals a cleartext: createJWE.
Seal ==
  /\ envelope.op = "none"
  /\ \E cleartext \in Cleartexts, encrypters \in EncrypterLists, aad \in Aads,
        useSingleEphemeralKey \in BOOLEAN :
       envelope' = [op |-> "createJWE", cleartext |-> cleartext, encrypters |-> encrypters,
                    aad |-> aad, useSingleEphemeralKey |-> useSingleEphemeralKey]
                   @@ createJWE(cleartext, encrypters, JObj(<<>>), aad,
                                useSingleEphemeralKey)
  /\ UNCHANGED <<sdVars, opened>>

\* A recipient opens the envelope: decryptJWE.
Open ==
  /\ envelope.op = "createJWE" /\ IsOk(envelope.result) /\ opened.op = "none"
  /\ \E decrypter \in Decrypters :
       opened' = [op |-> "decryptJWE", decrypter |-> decrypter, jwe |-> envelope.result[2]]
                 @@ decryptJWE(envelope.result[2], decrypter)
  /\ UNCHANGED <<sdVars, envelope>>

\* A recipient opens an envelope that is not the sealed one.
OpenAltered ==
  /\ envelope.op = "createJWE" /\ IsOk(envelope.result) /\ opened.op = "none"
  /\ \E decrypter \in Decrypters, jwe \in Altered(envelope.result[2]) :
       opened' = [op |-> "decryptJWE of altered", decrypter |-> decrypter, jwe |-> jwe]
                 @@ decryptJWE(jwe, decrypter)
  /\ UNCHANGED <<sdVars, envelope>>

NextJWE == Seal \/ Open \/ OpenAltered

SpecJWE == Init /\ [][NextJWE]_vars

(***************************************************************************)
(* The functions of the SD-JWT module called one at a time, as the unit    *)
(* tests call them: call holds the arguments and what came back.           *)
(***************************************************************************)
\* createObjectPropertyDisclosure(key, value, {salt, specCompatStringify}),
\* then parseObjectPropertyDisclosure of the string it returned; the caller
\* passes a salt of its own.
CodecRoundTrip ==
  /\ call.op = "none" /\ token.kind = "none"
  /\ \E salt \in {"s1", "s2"}, key \in {"a", "length"}, value \in SdValues \cup ClearValues,
        specCompatStringify \in BOOLEAN :
       call' = [op |-> "parseObjectPropertyDisclosure of created", salt |-> salt,
                key |-> key, value |-> value, specCompatStringify |-> specCompatStringify,
                result |-> parseObjectPropertyDisclosure(
                             createObjectPropertyDisclosure(key, value, salt,
                                                            specCompatStringify))]
  /\ UNCHANGED <<token, presented, sdJwt, jweVars>>

\* How many strings a caller puts between the token and the key binding.
MaxHandMade == 2

\* base64url of a JSON text, as a caller may write it by hand.
Encoded(text) == bytesToBase64url(stringToBytes(text))

\* Transport strings written by hand: JSON arrays of zero to four strings,
\* an object, a bare string, and a text that is not JSON.
HandMade ==
  { Encoded(JSONStringify(JArr(SubSeq(<<JStr("s"), JStr("a"), JStr("v"), JStr("w")>>, 1, n)))) :
      n \in 0 .. 4 }
  \cup { Encoded(JSONStringify(JArr(<<JStr("s"), JStr("e")>>))),
         Encoded(JSONStringify(ObjK(JStr("v")))),
         Encoded(JSONStringify(JStr("s"))),
         Encoded(<<TokLB, Lit(JStr("s"))>>) }

\* The lists of at most MaxHandMade such strings.
HandMadeLists == UNION { [1 .. n -> HandMade] : n \in 0 .. MaxHandMade }

\* formSdJwt(jwt, disclosures, kbJwt), then splitSdJwt of the string, with
\* and without a key-binding token.
WireRoundTrip ==
  /\ call.op = "none" /\ token.kind = "none"
  /\ \E disclosures \in HandMadeLists,
        kbJwt \in {JUndef, createJWT(JObj(<< <<"nonce", JStr("n")>> >>))} :
       call' = [op |-> "splitSdJwt of formed", jwt |-> createJWT(JObj(<<>>)),
                disclosures |-> disclosures, kbJwt |-> kbJwt,
                result |-> splitSdJwt(formSdJwt(createJWT(JObj(<<>>)), disclosures, kbJwt))]
  /\ UNCHANGED <<token, presented, sdJwt, jweVars>>

\* parseObjectPropertyDisclosure or parseArrayElementDisclosure of a string
\* written by hand.
ParseHandMade ==
  /\ call.op = "none" /\ token.kind = "none"
  /\ \E disclosure \in HandMade :
       \/ call' = [op |-> "parseObjectPropertyDisclosure", disclosure |-> disclosure,
                   result |-> parseObjectPropertyDisclosure(disclosure)]
       \/ call' = [op |-> "parseArrayElementDisclosure", disclosure |-> disclosure,
                   result |-> parseArrayElementDisclosure(disclosure)]
  /\ UNCHANGED <<token, presented, sdJwt, jweVars>>

\* A payload written by hand: _sd lists the digest of inSd, the array arr
\* holds a wrapper with the digest of inArray; JUndef for no reference.
HandMadePayload(sd_alg, inSd, inArray) ==
  JObj((IF sd_alg = JUndef THEN <<>> ELSE << <<"_sd_alg", sd_alg>> >>)
       \o << <<"_sd", JArr(IF inSd = JUndef THEN <<>> ELSE <<Digest(inSd)>>)>>,
              <<"arr", JArr(IF inArray = JUndef THEN <<>>
                            ELSE <<JObj(<< <<"...", Digest(inArray)>> >>)>>)>> >>)

\* The SD-JWT strings that carry a token with the disclosures: the one
\* formSdJwt builds and, without disclosures, the token followed by '~'.
WireForms(jwt, disclosures) ==
  {formSdJwt(jwt, disclosures, JUndef)}
  \cup (IF disclosures = <<>> THEN {Piece(jwt) \o <<Tilde>>} ELSE {})

\* decodeSdJWT(sdJwt, recurse) of such a token with hand-written strings
\* for disclosures; _sd_alg is absent, the supported algorithm, or another.
DecodeHandMade ==
  /\ call.op = "none" /\ token.kind = "none"
  /\ \E sd_alg \in {JUndef, JStr(DEFAULT_SD_ALG), JStr("sha-512")}, inSd \in HandMade \cup {JUndef},
        inArray \in HandMade \cup {JUndef}, disclosures \in HandMadeLists,
        recurse \in BOOLEAN :
       \E wire \in WireForms(createJWT(HandMadePayload(sd_alg, inSd, inArray)), disclosures) :
         call' = [op |-> "decodeSdJWT of hand-made", recurse |-> recurse,
                  sd_alg |-> sd_alg, inSd |-> inSd, inArray |-> inArray,
                  disclosures |-> disclosures, sdJwt |-> wire,
                  result |-> decodeSdJWT(wire, recurse)]
  /\ UNCHANGED <<token, presented, sdJwt, jweVars>>

\* sdClaims as Partial<SdJWTPayload> allows them: the claims to redact, or
\* those claims with _sd already there.
HelperSdClaims ==
  SdClaimSets
  \cup { JObj(<< <<"_sd", JArr(<<JStr("d")>>)>>, <<"a", v>> >>) : v \in SdValues }

\* sdJwtPayloadHelper(sdClaims, clearClaims) called alone.
HelperCall ==
  /\ call.op = "none" /\ token.kind = "none"
  /\ \E sdClaims \in HelperSdClaims, clearClaims \in ClearClaimSets :
       call' = [op |-> "sdJwtPayloadHelper", sdClaims |-> sdClaims,
                clearClaims |-> clearClaims,
                result |-> sdJwtPayloadHelper(sdClaims, clearClaims, DEFAULT_SD_ALG)]
  /\ UNCHANGED <<token, presented, sdJwt, jweVars>>

\* A payload written by hand in which one digest stands twice: in one _sd
\* list, in the _sd lists of two nodes, in two wrappers of one array or of
\* two arrays.
ReusedPayload(shape, disclosure) ==
  CASE shape = "oneList" ->
         JObj(<< <<"_sd", JArr(<<Digest(disclosure), Digest(disclosure)>>)>> >>)
    [] shape = "twoNodes" ->
         JObj(<< <<"m", JObj(<< <<"_sd", JArr(<<Digest(disclosure)>>)>> >>)>>,
                 <<"n", JObj(<< <<"_sd", JArr(<<Digest(disclosure)>>)>> >>)>> >>)
    [] shape = "oneArray" ->
         JObj(<< <<"arr", JArr(<<JObj(<< <<"...", Digest(disclosure)>> >>),
                                 JObj(<< <<"...", Digest(disclosure)>> >>)>>)>> >>)
    [] OTHER ->
         JObj(<< <<"arr", JArr(<<JObj(<< <<"...", Digest(disclosure)>> >>)>>)>>,
                 <<"brr", JArr(<<JObj(<< <<"...", Digest(disclosure)>> >>)>>)>> >>)

\* decodeSdJWT(sdJwt, recurse) of such a token, with the disclosure of the
\* repeated digest presented or withheld.
DecodeReused ==
  /\ call.op = "none" /\ token.kind = "none"
  /\ \E shape \in {"oneList", "twoNodes", "oneArray", "twoArrays"},
        key \in {"a", "m"}, presents \in BOOLEAN, recurse \in BOOLEAN :
       call' = [op |-> "decodeSdJWT of reused digest", recurse |-> recurse,
                shape |-> shape, key |-> key, presents |-> presents,
                result |->
                  decodeSdJWT(
                    createSdJWT(
                      ReusedPayload(shape,
                        IF shape \in {"oneList", "twoNodes"}
                        THEN createObjectPropertyDisclosure(key, JStr("v"), "s1", FALSE)
                        ELSE createArrayElementDisclosure(JStr(key), "s1", FALSE)),
                      IF ~presents THEN <<>>
                      ELSE IF shape \in {"oneList", "twoNodes"}
                      THEN <<createObjectPropertyDisclosure(key, JStr("v"), "s1", FALSE)>>
                      ELSE <<createArrayElementDisclosure(JStr(key), "s1", FALSE)>>,
                      JUndef),
                    recurse)]
  /\ UNCHANGED <<token, presented, sdJwt, jweVars>>

NextUnit ==
  \/ CodecRoundTrip \/ WireRoundTrip \/ ParseHandMade \/ DecodeHandMade \/ HelperCall
  \/ DecodeReused

SpecUnit == Init /\ [][NextUnit]_vars

(***************************************************************************)
(* What the claims about selective disclosure speak of.                    *)
(***************************************************************************)
RECURSIVE JsonEq(_, _)
\* The same JSON value: objects compared member by member, whatever the
\* order of their keys.
JsonEq(a, b) ==
  IF a[1] # b[1] THEN FALSE
  ELSE IF IsObj(a)
       THEN OwnKeys(a) = OwnKeys(b)
            /\ \A k \in OwnKeys(a) : JsonEq(GetProp(a, k), GetProp(b, k))
  ELSE IF IsArr(a)
       THEN Len(a[2]) = Len(b[2])
            /\ \A i \in DOMAIN a[2] : JsonEq(a[2][i], b[2][i])
  ELSE a = b

RECURSIVE HasMember(_, _)
\* Some object inside v, at any depth, has a member named in names.
HasMember(v, names) ==
  IF IsObj(v)
  THEN OwnKeys(v) \cap names # {}
       \/ \E i \in DOMAIN v[2] : HasMember(v[2][i][2], names)
  ELSE IF IsArr(v) THEN \E i \in DOMAIN v[2] : HasMember(v[2][i], names)
  ELSE FALSE

SeqRange(seq) == {seq[i] : i \in DOMAIN seq}

\* The indices (into the issuer's disclosures) of what the last call was
\* given: all of them for the round trip, the presented ones for a decode.
Disclosed ==
  IF call.op = "expandDisclosures" THEN DOMAIN token.disclosures
  ELSE SeqRange(presented)

\* The elements of an array claim whose disclosures n+1, n+2, ... are in S.
Pick(elems, n, S) ==
  LET kept == SelectSeq([j \in DOMAIN elems |-> <<j, elems[j]>>],
                        LAMBDA p : (n + p[1]) \in S)
  IN [j \in DOMAIN kept |-> kept[j][2]]

RECURSIVE ExpectedClaims(_, _, _, _, _)
\* The claims a holder reveals with the disclosures S of a helper-built
\* token: acc with the redacted properties and array elements S discloses.
ExpectedClaims(entries, i, n, S, acc) ==
  IF i > Len(entries) THEN acc
  ELSE IF IsArr(entries[i][2])
       THEN ExpectedClaims(entries, i + 1, n + Len(entries[i][2][2]), S,
                           SetProp(acc, entries[i][1], JArr(Pick(entries[i][2][2], n, S))))
  ELSE ExpectedClaims(entries, i + 1, n + 1, S,
                      IF (n + 1) \in S THEN SetProp(acc, entries[i][1], entries[i][2])
                      ELSE acc)

\* C1: expanding the helper's payload against the helper's whole map, with
\* recursion, returns the union of clearClaims and sdClaims once _sd and
\* _sd_alg are removed.
C1_FullDisclosureRoundTrip ==
  (token.kind = "helper" /\ call.op = "expandDisclosures" /\ call.recurse)
    => /\ IsOk(call.result)
       /\ JsonEq(DelProp(DelProp(call.result[2], "_sd"), "_sd_alg"),
                 Spread(token.clearClaims, token.sdClaims))

\* C2: decodeSdJWT with the subset S of the issuer's disclosures presented
\* returns the clear claims and exactly the redacted properties and array
\* elements S discloses, and raises no error.
C2_SubsetMonotonicity ==
  (token.kind = "helper" /\ call.op = "decodeSdJWT" /\ call.recurse)
    => /\ IsOk(call.result)
       /\ JsonEq(call.result[2].payload,
                 ExpectedClaims(Entries(token.sdClaims), 1, 0, Disclosed,
                                token.clearClaims))

\* The permutations of 1 .. n.
Perms(n) == {f \in [1 .. n -> 1 .. n] : \A i, j \in 1 .. n : f[i] = f[j] => i = j}

\* The wire string with its disclosure segments in the order p.
Permuted(split, p) ==
  formSdJwt(split.jwt, [i \in DOMAIN p |-> split.disclosures[p[i]]],
            IF split.kbJwt = EmptyString THEN JUndef ELSE split.kbJwt)

\* What a decode is compared by: the expanded payload, or the failure.
Outcome(r) == IF IsOk(r) THEN Ok(r[2].payload) ELSE r

SameForEveryOrder(split, recurse, outcome) ==
  \A p \in Perms(Len(split.disclosures)) :
    Outcome(decodeSdJWT(Permuted(split, p), recurse)) = outcome

\* C3: decodeSdJWT returns the same expanded payload, or the same failure,
\* for every permutation of the disclosure segments of the wire string.
C3_OrderIndependence ==
  call.op = "decodeSdJWT"
    => SameForEveryOrder(splitSdJwt(sdJwt), call.recurse, Outcome(call.result))

\* C3's case: two or more disclosures presented out of the issuer's order,
\* and decoded.
C3_Witness ==
  /\ call.op = "decodeSdJWT"
  /\ Len(presented) >= 2 /\ presented[1] > presented[2]
  /\ IsOk(call.result)
  /\ call.result[2].payload # DelProp(token.payload, "_sd_alg")

\* The hand-built node's _sd is part of the payload that is expanded: the
\* disclosures that carry the node are presented.
NodeReached == token.nodeParents \subseteq Disclosed

\* A presented disclosure of the node's _sd carries a key the node already
\* has: the clear claim c, or the key of the earlier disclosure.
NodeCollision ==
  \/ 1 \in Disclosed /\ token.nodeKeys[1] = "c"
  \/ 2 \in Disclosed /\ token.nodeKeys[2] = "c"
  \/ {1, 2} \subseteq Disclosed /\ token.nodeKeys[1] = token.nodeKeys[2]

CraftedCall ==
  /\ token.kind \in Templates
  /\ call.op \in {"expandDisclosures", "decodeSdJWT"}

\* C4: a presented disclosure whose key the node already has makes the
\* expansion fail, at every nesting level when recursion is enabled.
C4_DuplicateKeyIntegrity ==
  (CraftedCall /\ (call.recurse \/ token.kind = "flat") /\ NodeReached /\ NodeCollision)
    => IsErr(call.result)

ReservedKeys == {"nbf", "iat", "exp"}

\* C5: a presented disclosure referenced by _sd is rejected if and only if
\* its key is nbf, iat or exp, and no returned payload has one of them from
\* a disclosure (here for a top-level _sd).
C5_ReservedKeysRejected ==
  (CraftedCall /\ token.kind = "flat")
    => /\ (IsErr(call.result) /\ call.result[2] = "Invalid disclosure key")
            <=> (\E i \in Disclosed : token.nodeKeys[i] \in ReservedKeys)
       /\ IsOk(call.result)
            => OwnKeys(IF call.op = "decodeSdJWT" THEN call.result[2].payload
                       ELSE call.result[2]) \cap ReservedKeys = {}

\* C6: the payload decodeSdJWT returns with recursion enabled has no _sd and
\* no _sd_alg member at any nesting level.
C6_NoSdMembersAfterDecode ==
  (call.op = "decodeSdJWT" /\ call.recurse /\ IsOk(call.result))
    => ~HasMember(call.result[2].payload, {"_sd", "_sd_alg"})

\* The hand-built node inside an expanded payload.
NodeIn(payload) ==
  CASE token.kind = "flat" -> payload
    [] token.kind \in {"structured", "structuredAlg", "recursive"} -> GetProp(payload, "addr")
    [] OTHER -> GetProp(payload, "arr")[2][1]

\* C7: the payload verifySdJWT returns for a token whose signature verifies
\* has no _sd member at any nesting level, and every presented disclosure
\* is resolved, those of nested _sd lists included.
C7_VerifyResolvesNested ==
  (call.op = "verifySdJWT" /\ IsOk(call.result))
    => /\ ~HasMember(call.result[2].payload, {"_sd"})
       /\ (token.kind \in Templates /\ NodeReached /\ ~NodeCollision)
            => \A i \in Disclosed \cap {1, 2} :
                 HasOwn(NodeIn(call.result[2].payload), token.nodeKeys[i])

(***************************************************************************)
(* What the claims about the envelope speak of.                            *)
(***************************************************************************)
\* The decrypter is the one for the encrypter's recipient: same algorithm,
\* same content encryption, same key.
Matching(decrypter, encrypter) ==
  /\ decrypter.alg = encrypter.alg
  /\ decrypter.enc = encrypter.enc
  /\ decrypter.key = encrypter.key

\* createJWE was given one direct encrypter.
DirectSeal ==
  /\ envelope.op = "createJWE"
  /\ Len(envelope.encrypters) = 1
  /\ envelope.encrypters[1].alg = "dir"

\* C8: decryptJWE with the matching direct decrypter returns the cleartext
\* that createJWE sealed with one direct encrypter, whatever its length.
C8_DirectRoundTrip ==
  (DirectSeal /\ opened.op = "decryptJWE"
   /\ Matching(opened.decrypter, envelope.encrypters[1]))
    => IsOk(opened.result) /\ opened.result[2] = envelope.cleartext

\* createJWE was given encrypters that are all non-direct and share one enc.
NonDirectSeal ==
  /\ envelope.op = "createJWE"
  /\ \A i \in DOMAIN envelope.encrypters :
       /\ envelope.encrypters[i].alg # "dir"
       /\ envelope.encrypters[i].enc = envelope.encrypters[1].enc

\* The places of the encrypters that add a recipient entry: the first, and
\* the later ones that have encryptCek.
Wrappers ==
  {i \in DOMAIN envelope.encrypters : i = 1 \/ envelope.encrypters[i].keyWrap}

RecipientsOf(jwe) ==
  IF HasOwn(jwe, "recipients") THEN GetProp(jwe, "recipients")[2] ELSE <<>>

\* What a recipient entry wraps, and for which key.
WrappedIn(recipient) == base64ToBytes(GetProp(recipient, "encrypted_key"))[2][1]

\* The j-th recipient entry wraps the first encrypter's key for the
\* encrypter at place i.
WrapsFirstCek(jwe, j, i) ==
  WrappedIn(RecipientsOf(jwe)[j])
    = <<"wrap", envelope.encrypters[i].key, NewCek(envelope.encrypters[1])>>

\* The content was sealed once, under the first encrypter's key.
SealedOnce(jwe) ==
  /\ GetProp(jwe, "ciphertext")
       = bytesToBase64url(SealContent(NewCek(envelope.encrypters[1]), envelope.cleartext,
                                      AadOf(jwe)).ciphertext)
  /\ GetProp(jwe, "tag")
       = bytesToBase64url(SealContent(NewCek(envelope.encrypters[1]), envelope.cleartext,
                                      AadOf(jwe)).tag)

\* C9, as the code has it: the envelope has one recipient entry for the
\* first encrypter and one for each later encrypter that has encryptCek, in
\* list order, each wrapping the first encrypter's content-encryption key;
\* that is N entries when every encrypter has encryptCek; the content is
\* sealed once, under that key.
C9_RecipientsWrapOneCek ==
  NonDirectSeal
    => /\ IsOk(envelope.result)
       /\ Len(RecipientsOf(envelope.result[2])) = Cardinality(Wrappers)
       /\ \A j \in 1 .. Cardinality(Wrappers) :
            WrapsFirstCek(envelope.result[2], j, SortedSeq(Wrappers)[j])
       /\ (\A i \in DOMAIN envelope.encrypters : envelope.encrypters[i].keyWrap)
            => Len(RecipientsOf(envelope.result[2])) = Len(envelope.encrypters)
       /\ SealedOnce(envelope.result[2])

\* C9's case: two or more key-wrapping encrypters, and an envelope with a
\* recipient entry for each.
C9_Witness ==
  /\ NonDirectSeal
  /\ Len(envelope.encrypters) >= 2
  /\ \A i \in DOMAIN envelope.encrypters : envelope.encrypters[i].keyWrap
  /\ IsOk(envelope.result)
  /\ Len(RecipientsOf(envelope.result[2])) = Len(envelope.encrypters)

\* C9 as stated: N non-direct encrypters sharing enc give exactly N
\* recipient entries, one per encrypter in list order, all wrapping the
\* first encrypter's key.
C9_OneRecipientPerEncrypter ==
  NonDirectSeal
    => /\ IsOk(envelope.result)
       /\ Len(RecipientsOf(envelope.result[2])) = Len(envelope.encrypters)
       /\ \A j \in DOMAIN RecipientsOf(envelope.result[2]) :
            WrapsFirstCek(envelope.result[2], j, j)

\* C10: decryptJWE with the decrypter of any one recipient of a
\* multi-recipient envelope returns the cleartext, with or without
\* useSingleEphemeralKey, for equal or different key-wrapping algorithms
\* (here for a cleartext that is not empty).
C10_AnyRecipientOpens ==
  (NonDirectSeal /\ IsOk(envelope.result) /\ envelope.cleartext[2] # <<>>
   /\ opened.op = "decryptJWE"
   /\ \E i \in Wrappers : Matching(opened.decrypter, envelope.encrypters[i]))
    => IsOk(opened.result) /\ opened.result[2] = envelope.cleartext

(***************************************************************************)
(* What the claims about opening an envelope speak of.                     *)
(***************************************************************************)
\* Some decryptJWE call was made, on the sealed envelope or on an altered
\* one.
Opened == opened.op # "none"

\* The protected header of the opened envelope, parsed.
OpenedHeader == JSONParse(decodeBase64url(GetProp(opened.jwe, "protected")))[2]

\* The call came as far as the choice between the direct path and the scan:
\* the envelope was found complete, its protected header was parsed and its
\* enc is the decrypter's.
PastEncCheck ==
  /\ Opened
  /\ IsOk(validateJWE(opened.jwe))
  /\ IsOk(JSONParse(decodeBase64url(GetProp(opened.jwe, "protected"))))
  /\ GetProp(OpenedHeader, "enc") = JStr(opened.decrypter.enc)

OpenedRecipients ==
  IF HasOwn(opened.jwe, "recipients") THEN GetProp(opened.jwe, "recipients")[2] ELSE <<>>

\* The decrypter calls the opening made: 0 is the direct call, i the call
\* for the i-th recipient.
DecryptCalls == {c \in SeqRange(opened.calls) : c[1] = "decrypt"}

\* What the decrypter handed back in the call c.
Decrypted(c) ==
  Decrypt(opened.decrypter,
          toSealed(GetProp(opened.jwe, "ciphertext"), GetProp(opened.jwe, "tag")),
          base64ToBytes(GetProp(opened.jwe, "iv")), AadOf(opened.jwe),
          IF c[2] = 0 THEN JUndef
          ELSE MergedRecipient(OpenedRecipients[c[2]], OpenedHeader))

C17_DirectEncrypterAlone ==
  (envelope.op = "createJWE" /\ Len(envelope.encrypters) > 1
   /\ \E i \in DOMAIN envelope.encrypters : envelope.encrypters[i].alg = "dir")
    => IsErr(envelope.result)

\* createJWE was given a non-direct first encrypter and two encrypters whose
\* enc differ.
IncompatibleSeal ==
  /\ envelope.op = "createJWE"
  /\ envelope.encrypters[1].alg # "dir"
  /\ \E i, j \in DOMAIN envelope.encrypters :
       envelope.encrypters[i].enc # envelope.encrypters[j].enc

\* C18: with encrypters of different enc, createJWE fails with
\* 'invalid_argument: Incompatible encrypters passed' and has invoked no
\* encrypt, encryptCek or genEpk.
C18_EncCheckedUpFront ==
  IncompatibleSeal
    => /\ envelope.result = Err("invalid_argument: Incompatible encrypters passed")
       /\ envelope.calls = <<>>

\* C18's case: incompatible encrypters that have genEpk and encryptCek, and
\* the single ephemeral key asked for.
C18_Witness ==
  /\ IncompatibleSeal
  /\ envelope.useSingleEphemeralKey
  /\ \A i \in DOMAIN envelope.encrypters : envelope.encrypters[i].keyWrap
  /\ IsErr(envelope.result)
  /\ envelope.calls = <<>>

\* Every member validateJWE asks for is there: protected, iv, ciphertext and
\* tag, and header and encrypted_key in every recipient entry.
Complete(jwe) ==
  /\ \A f \in {"protected", "iv", "ciphertext", "tag"} : HasOwn(jwe, f)
  /\ HasOwn(jwe, "recipients")
       => \A j \in DOMAIN GetProp(jwe, "recipients")[2] :
            /\ HasOwn(GetProp(jwe, "recipients")[2][j], "header")
            /\ HasOwn(GetProp(jwe, "recipients")[2][j], "encrypted_key")

BadEnvelope(r) ==
  r \in {Err("bad_jwe: missing properties"), Err("bad_jwe: malformed recipients")}

\* C19: an envelope with a member missing makes decryptJWE fail with a
\* bad_jwe error before the protected header is parsed or the decrypter
\* invoked; an envelope with every member there is not refused by that check.
C19_ValidatedFirst ==
  Opened
    => /\ ~Complete(opened.jwe) => (BadEnvelope(opened.result) /\ opened.calls = <<>>)
       /\ Complete(opened.jwe) => ~BadEnvelope(opened.result)

(***************************************************************************)
(* What the claims about the single functions speak of.                    *)
(***************************************************************************)
\* The last call was the codec round trip.
Codec == call.op = "parseObjectPropertyDisclosure of created"

\* C12: parseObjectPropertyDisclosure of the string that
\* createObjectPropertyDisclosure made for a salt, a key and a JSON value
\* gives back that salt, key and value, in the default rendering and in the
\* spec-compatible one, and the two renderings are different strings.
C12_DisclosureCodecRoundTrip ==
  Codec =>
    /\ call.result = Ok([salt |-> JStr(call.salt), key |-> JStr(call.key),
                         value |-> call.value])
    /\ createObjectPropertyDisclosure(call.key, call.value, call.salt, TRUE)
         # createObjectPropertyDisclosure(call.key, call.value, call.salt, FALSE)

\* The spec-compatible rendering of a disclosure whose value has members of
\* its own was parsed back.
C12_Witness ==
  /\ Codec /\ call.specCompatStringify
  /\ call.value = ObjK(JArr(<<JBool(TRUE), JNull>>))
  /\ IsOk(call.result) /\ call.result[2].value = call.value

\* The last call was the wire round trip.
Wire == call.op = "splitSdJwt of formed"

\* C13: splitSdJwt of the string formSdJwt made from a token, N >= 0
\* disclosures and an optional key-binding token gives back that token, those
\* N disclosures in their order (none for N = 0) and the key-binding token,
\* the empty string when none was given; without a key-binding token the
\* string ends with '~'.
C13_WireRoundTrip ==
  Wire =>
    /\ call.result.jwt = call.jwt
    /\ call.result.disclosures = call.disclosures
    /\ call.result.kbJwt = (IF call.kbJwt = JUndef THEN EmptyString ELSE call.kbJwt)
    /\ call.kbJwt = JUndef =>
         formSdJwt(call.jwt, call.disclosures, call.kbJwt)
           [Len(formSdJwt(call.jwt, call.disclosures, call.kbJwt))] = Tilde

\* The last call was decodeSdJWT of a hand-made token.
DecodedHandMade == call.op = "decodeSdJWT of hand-made"

\* C14: decodeSdJWT of a token whose payload names in _sd_alg an algorithm
\* other than 'sha-256' fails with the unsupported-algorithm error, whatever
\* disclosures are presented, none included.
C14_OtherAlgorithmRejected ==
  (DecodedHandMade /\ call.sd_alg = JStr("sha-512"))
    => call.result = Err("Unsupported sd_alg")

\* What a transport string decodes to.
Content(disclosure) == JSONParse(decodeBase64url(disclosure))
\* A JSON array of n elements.
ArrayOf(disclosure, n) ==
  /\ IsOk(Content(disclosure)) /\ IsArr(Content(disclosure)[2])
  /\ Len(Content(disclosure)[2][2]) = n
\* Neither an object-property disclosure nor an array-element disclosure.
Malformed(disclosure) == ~ArrayOf(disclosure, 3) /\ ~ArrayOf(disclosure, 2)

\* C15: decodeSdJWT fails whenever the presented list holds a disclosure that
\* is not base64url of a JSON array of two or three elements; such a
\* disclosure is never passed over.
C15_MalformedDisclosureRejected ==
  (DecodedHandMade /\ \E i \in DOMAIN call.disclosures : Malformed(call.disclosures[i]))
    => IsErr(call.result)

\* C16: parseObjectPropertyDisclosure accepts arrays of exactly three
\* elements and parseArrayElementDisclosure arrays of exactly two, and a
\* three-element disclosure that an array wrapper refers to is rejected by
\* decodeSdJWT, not put in the array.
C16_ArityEnforced ==
  /\ call.op = "parseObjectPropertyDisclosure"
       => (IsOk(call.result) <=> ArrayOf(call.disclosure, 3))
  /\ call.op = "parseArrayElementDisclosure"
       => (IsOk(call.result) <=> ArrayOf(call.disclosure, 2))
  /\ (/\ DecodedHandMade /\ call.inArray # JUndef /\ ArrayOf(call.inArray, 3)
      /\ \E i \in DOMAIN call.disclosures : call.disclosures[i] = call.inArray)
       => IsErr(call.result)

\* The last call was sdJwtPayloadHelper, and it returned.
Helped == call.op = "sdJwtPayloadHelper" /\ IsOk(call.result)
HelperPayload == call.result[2].sdJwtPayload
HelperMap == call.result[2].digestDislosureMap

\* The wrappers {"...": digest} among the elements of an array.
WrappersIn(v) ==
  IF IsArr(v)
  THEN {v[2][j] : j \in {j \in DOMAIN v[2] : IsObj(v[2][j]) /\ HasOwn(v[2][j], "...")}}
  ELSE {}
\* The digests a payload refers to: the strings of _sd and the digests of
\* the wrappers in its arrays.
ReferencedDigests(payload) ==
  {e[2] : e \in {e \in SeqRange(GetProp(payload, "_sd")[2]) : e[1] = "str"}}
  \cup UNION { {GetProp(w, "...")[2] : w \in WrappersIn(GetProp(payload, k))} :
                k \in OwnKeys(payload) }

\* The claims of sdClaims that are arrays, and those that are not, in order.
ArrayClaims(sdClaims) == SelectSeq(Entries(sdClaims), LAMBDA e : IsArr(e[2]))
PlainClaims(sdClaims) == SelectSeq(Entries(sdClaims), LAMBDA e : ~IsArr(e[2]))

\* _sd holds one digest per claim that is not an array, each the key of the
\* disclosure of that claim.
OneDigestPerPlainClaim ==
  /\ IsArr(GetProp(HelperPayload, "_sd"))
  /\ Len(GetProp(HelperPayload, "_sd")[2]) = Len(PlainClaims(call.sdClaims))
  /\ \A i \in DOMAIN PlainClaims(call.sdClaims) :
       /\ GetProp(HelperPayload, "_sd")[2][i][1] = "str"
       /\ MapHas(HelperMap, GetProp(HelperPayload, "_sd")[2][i][2])
       /\ parseObjectPropertyDisclosure(
            MapGet(HelperMap, GetProp(HelperPayload, "_sd")[2][i][2]))
          = Ok([salt |-> parseObjectPropertyDisclosure(
                           MapGet(HelperMap, GetProp(HelperPayload, "_sd")[2][i][2]))[2].salt,
                key |-> JStr(PlainClaims(call.sdClaims)[i][1]),
                value |-> PlainClaims(call.sdClaims)[i][2]])

\* An array claim is replaced by one wrapper per element, in element order.
OneWrapperPerElement ==
  \A i \in DOMAIN ArrayClaims(call.sdClaims) :
    LET wrapped == GetProp(HelperPayload, ArrayClaims(call.sdClaims)[i][1])
        elems == ArrayClaims(call.sdClaims)[i][2][2]
    IN /\ IsArr(wrapped) /\ Len(wrapped[2]) = Len(elems)
       /\ \A j \in DOMAIN elems :
            /\ wrapped[2][j] \in WrappersIn(wrapped)
            /\ MapHas(HelperMap, GetProp(wrapped[2][j], "...")[2])
            /\ parseArrayElementDisclosure(
                 MapGet(HelperMap, GetProp(wrapped[2][j], "...")[2]))[2].value = elems[j]

\* C20: the digests the helper's payload refers to, in _sd and in array
\* wrappers, are the keys of the map it returns; every claim of sdClaims that
\* is not an array gives one digest in _sd, and every array claim is replaced
\* by one wrapper per element, in element order.
C20_HelperDigestsAreMapKeys ==
  Helped =>
    /\ ReferencedDigests(HelperPayload) = MapKeys(HelperMap)
    /\ OneDigestPerPlainClaim
    /\ OneWrapperPerElement

(***************************************************************************)
(* Expansion of disclosed array elements and of null.                      *)
(***************************************************************************)
\* The payload the last expandDisclosures or decodeSdJWT call returned.
ResultPayload ==
  IF call.op = "decodeSdJWT" THEN call.result[2].payload ELSE call.result[2]

\* The index the last call worked with: digest -> disclosure for the
\* disclosures it was given.
DisclosedIndex ==
  buildDigestDisclosureMap(
    SelectSeq(token.disclosures,
              LAMBDA d : \E i \in Disclosed : token.disclosures[i] = d),
    DEFAULT_SD_ALG)[2]

\* The last call returned the payload with `expanded` at the place of the
\* array wrapper, or failed as the expansion of the element failed.
SplicedIn(expanded) ==
  IF IsErr(expanded) THEN IsErr(call.result)
  ELSE IsOk(call.result) /\ NodeIn(ResultPayload) = expanded[2]

\* C21: with recursion enabled, the value of a disclosed array element is
\* itself expanded against the same index before it takes the place of its
\* wrapper: its _sd list is resolved.
C21_DisclosedElementExpanded ==
  (token.kind = "arrayElement" /\ CraftedCall /\ call.recurse /\ 3 \in Disclosed)
    => SplicedIn(expandDisclosures(
                   parseArrayElementDisclosure(token.disclosures[3])[2].value,
                   DisclosedIndex, TRUE))

\* The clear claim c is null or an array with a null element.
NullClaim ==
  /\ token.kind = "helper" /\ HasOwn(token.clearClaims, "c")
  /\ \/ GetProp(token.clearClaims, "c") = JNull
     \/ /\ IsArr(GetProp(token.clearClaims, "c"))
        /\ JNull \in SeqRange(GetProp(token.clearClaims, "c")[2])

\* C22: with recursion enabled a null that is a clear claim's value or an
\* array element is copied to the result as it is, and the expansion does
\* not fail (here with no disclosure given, so that nothing else can fail).
C22_NullPassesThrough ==
  (/\ NullClaim /\ call.op \in {"expandDisclosures", "decodeSdJWT"}
   /\ call.recurse /\ Disclosed = {})
    => /\ IsOk(call.result)
       /\ GetProp(ResultPayload, "c") = GetProp(token.clearClaims, "c")

(***************************************************************************)
(* What decryptJWE does to the envelope, and the order of its scan.        *)
(***************************************************************************)
\* C24: decryptJWE leaves the envelope it was given as it was: after the
\* call, successful or failed, every member of the JWE, each recipient's
\* header included, has the value it had before.
C24_EnvelopeUnchanged ==
  Opened => opened.jweAfter = opened.jwe

\* The opening went through the recipients: it is past the enc check, not
\* on the direct path, and the envelope has recipients.
Scanned ==
  /\ PastEncCheck
  /\ ~(GetProp(OpenedHeader, "alg") = JStr("dir") /\ opened.decrypter.alg = "dir")
  /\ OpenedRecipients # <<>>

\* The recipients the decrypter was called for, in the order of the calls.
CalledFor ==
  [j \in DOMAIN SelectSeq(opened.calls, LAMBDA c : c[1] = "decrypt") |->
     SelectSeq(opened.calls, LAMBDA c : c[1] = "decrypt")[j][2]]

\* The recipient's header merged with the protected header names the
\* decrypter's algorithm.
MergedAlgMatches(i) ==
  GetProp(GetProp(MergedRecipient(OpenedRecipients[i], OpenedHeader), "header"), "alg")
    = JStr(opened.decrypter.alg)

\* C25: on the scan, the decrypter is called for recipients in list order
\* and at most once each, only for a recipient whose header merged with the
\* protected header has the decrypter's algorithm (and for each such
\* recipient up to the first cleartext), and never after a call has handed
\* back a cleartext.
C25_ScanOrder ==
  Scanned =>
    /\ \A a, b \in DOMAIN CalledFor : a < b => CalledFor[a] < CalledFor[b]
    /\ \A a \in DOMAIN CalledFor :
         /\ CalledFor[a] \in DOMAIN OpenedRecipients
         /\ MergedAlgMatches(CalledFor[a])
         /\ a < Len(CalledFor) => Decrypted(<<"decrypt", CalledFor[a]>>) = JNull
    /\ \A i \in DOMAIN OpenedRecipients :
         (/\ MergedAlgMatches(i)
          /\ \A j \in 1 .. (i - 1) :
               MergedAlgMatches(j) => Decrypted(<<"decrypt", j>>) = JNull)
           => i \in SeqRange(CalledFor)

\* C25's case: two recipients have the decrypter's algorithm, the call for
\* the first handed back the cleartext, and no call was made for the second.
C25_Witness ==
  /\ Scanned /\ Len(OpenedRecipients) = 2
  /\ MergedAlgMatches(1) /\ MergedAlgMatches(2)
  /\ CalledFor = <<1>> /\ IsOk(opened.result)

(***************************************************************************)
(* The ephemeral key of createJWE.                                         *)
(***************************************************************************)
\* createJWE returned an envelope on the multi-recipient branch.
SealedByLoop ==
  /\ envelope.op = "createJWE" /\ IsOk(envelope.result)
  /\ envelope.encrypters[1].alg # "dir"

\* The calls of one operation the sealing made, in order.
SealCalls(operation) == SelectSeq(envelope.calls, LAMBDA c : c[1] = operation)

\* The protected header of the sealed envelope, parsed.
SealedHeader == JSONParse(decodeBase64url(GetProp(envelope.result[2], "protected")))[2]

\* Every encrypt and encryptCek call was handed epk.
HandedToAll(epk) ==
  \A i \in DOMAIN envelope.calls :
    envelope.calls[i][1] \in {"encrypt", "encryptCek"} => envelope.calls[i][3] = epk

\* C26 as stated: with useSingleEphemeralKey, createJWE generates the
\* ephemeral key pair exactly once, through the first encrypter, hands that
\* pair to the first encrypter's encrypt and to every later key-wrap call,
\* and records its public key in the protected header; without the flag no
\* pair is generated or handed to any encrypter.
C26_SingleEpkGeneratedOnce ==
  SealedByLoop =>
    IF envelope.useSingleEphemeralKey
    THEN /\ SealCalls("genEpk") = <<<<"genEpk", envelope.encrypters[1].key>>>>
         /\ envelope.calls[1][1] = "genEpk"
         /\ GenEpk(envelope.encrypters[1]) # JUndef
         /\ HandedToAll(GenEpk(envelope.encrypters[1]))
         /\ GetProp(SealedHeader, "epk")
              = GetProp(GenEpk(envelope.encrypters[1]), "publicKeyJWK")
    ELSE SealCalls("genEpk") = <<>> /\ HandedToAll(JUndef)

\* C26 amended: the same when the first encrypter has the optional genEpk;
\* when it has not, nothing is generated, undefined is handed to every
\* encrypter and the protected header has no epk.
C26_SingleEpkWhenProvided ==
  SealedByLoop =>
    IF envelope.useSingleEphemeralKey /\ envelope.encrypters[1].keyWrap
    THEN /\ SealCalls("genEpk") = <<<<"genEpk", envelope.encrypters[1].key>>>>
         /\ envelope.calls[1][1] = "genEpk"
         /\ GenEpk(envelope.encrypters[1]) # JUndef
         /\ HandedToAll(GenEpk(envelope.encrypters[1]))
         /\ GetProp(SealedHeader, "epk")
              = GetProp(GenEpk(envelope.encrypters[1]), "publicKeyJWK")
    ELSE /\ SealCalls("genEpk") = <<>> /\ HandedToAll(JUndef)
         /\ ~HasOwn(SealedHeader, "epk")

\* C26's case: two encrypters, both with the optional operations, sealed
\* with one ephemeral key: generated, then handed to encrypt and encryptCek.
C26_Witness ==
  /\ SealedByLoop /\ envelope.useSingleEphemeralKey
  /\ Len(envelope.encrypters) = 2
  /\ [i \in DOMAIN envelope.calls |-> envelope.calls[i][1]]
       = <<"genEpk", "encrypt", "encryptCek">>
  /\ envelope.calls[3][3] = GenEpk(envelope.encrypters[1])

(***************************************************************************)
(* Digests that stand more than once in a payload.                         *)
(***************************************************************************)
\* C27: decodeSdJWT (with recursion, its default) fails with an integrity
\* error whenever a digest whose disclosure is presented stands more than
\* once in the payload: twice in one _sd list, in the _sd lists of two
\* nodes, or in more than one array wrapper.
C27_DigestReuseRejected ==
  (call.op = "decodeSdJWT of reused digest" /\ call.recurse /\ call.presents)
    => IsErr(call.result)

(***************************************************************************)
(* Presented disclosures that the payload does not refer to.               *)
(***************************************************************************)
\* The i-th presented disclosure of a hand-made token is referenced nowhere:
\* the payload refers to the digests of inSd and inArray only.
Unreferenced(i) == call.disclosures[i] \notin {call.inSd, call.inArray}

\* The presented list without its i-th disclosure.
Without(i) ==
  SubSeq(call.disclosures, 1, i - 1) \o SubSeq(call.disclosures, i + 1, Len(call.disclosures))

\* The same token presented without the i-th disclosure, in the string that
\* splits into exactly the disclosures left.
PresentedWithout(i) ==
  IF Without(i) = <<>>
  THEN Piece(createJWT(HandMadePayload(call.sd_alg, call.inSd, call.inArray))) \o <<Tilde>>
  ELSE formSdJwt(createJWT(HandMadePayload(call.sd_alg, call.inSd, call.inArray)),
                 Without(i), JUndef)

\* Two calls of decodeSdJWT end alike: the same error, or the same payload.
SameOutcome(r1, r2) ==
  IF IsErr(r1) \/ IsErr(r2) THEN r1 = r2 ELSE r1[2].payload = r2[2].payload

\* C29: a presented disclosure whose digest stands nowhere in the payload
\* has no effect: decodeSdJWT ends as it does for the same token presented
\* without that disclosure, with the same payload and no error of its own.
C29_UnreferencedDisclosureIgnored ==
  DecodedHandMade =>
    \A i \in DOMAIN call.disclosures :
      Unreferenced(i) =>
        SameOutcome(call.result, decodeSdJWT(PresentedWithout(i), call.recurse))

(***************************************************************************)
(* verifySdJWT: the signature first, the disclosures afterwards.           *)
(***************************************************************************)
VerifyCalled == call.op = "verifySdJWT"
\* What verifyJWT makes of the signed-token segment of the string verified,
\* and what decodeSdJWT(sdJwt, false) makes of the string.
SegmentVerification == verifyJWT(splitSdJwt(call.sdJwt).jwt)
SegmentExpansion == decodeSdJWT(call.sdJwt, FALSE)

\* C30: verifySdJWT settles the signature of the signed-token segment before
\* it hashes or expands a disclosure: when verification fails the call fails
\* with the error of the verification, whatever the disclosures would have
\* raised, and returns no payload; when the expansion fails afterwards the
\* call fails too; a payload is returned only for a verified token, and it
\* is the expanded one.
C30_VerifiedBeforeExpanded ==
  VerifyCalled =>
    /\ IsErr(SegmentVerification) => call.result = SegmentVerification
    /\ IsErr(SegmentExpansion) => IsErr(call.result)
    /\ IsOk(call.result) =>
         /\ IsOk(SegmentVerification) /\ IsOk(SegmentExpansion)
         /\ call.result[2].payload = SegmentExpansion[2].payload
\* A token whose signature does not verify and whose disclosures would not
\* expand either has been given to verifySdJWT.
C30_Witness ==
  VerifyCalled /\ IsErr(SegmentVerification) /\ IsErr(SegmentExpansion)

(***************************************************************************)
(* expandDisclosures and the caller's objects; the depth of its recursion. *)
(***************************************************************************)
ExpandedKept == call.op = "expandDisclosures of kept objects"

\* C23: expandDisclosures never changes what it is given: when the call has
\* ended, with a result or with an error, the payload object, every object
\* and array inside it and the digest-to-disclosure map are what they were
\* when it was made, and the same holds of every nested call and the
\* objects that existed when it was entered.
C23_InputsNotMutated ==
  ExpandedKept =>
    /\ \A a \in DOMAIN call.before.heap : call.after.heap[a] = call.before.heap[a]
    /\ Load(call.after.heap, call.before.out[2]) = token.payload
    /\ call.after.map = call.before.map
    /\ call.after.intact
\* A call that put a disclosed object in and expanded it in a nested call.
C23_Witness ==
  /\ ExpandedKept /\ IsOk(call.result) /\ call.after.deepest >= 1
  /\ \E i \in DOMAIN call.after.spliced : IsObj(call.after.spliced[i])
  /\ call.result[2] # token.payload

\* The largest of a set of depths.
Deepest(S) == IF S = {} THEN 0 ELSE CHOOSE m \in S : \A n \in S : n <= m
RECURSIVE Nesting(_)
\* The nesting depth of a JSON value: 0 for a primitive, 1 for an object or
\* array of primitives.
Nesting(v) ==
  IF IsObj(v) THEN 1 + Deepest({Nesting(v[2][i][2]) : i \in DOMAIN v[2]})
  ELSE IF IsArr(v) THEN 1 + Deepest({Nesting(v[2][i]) : i \in DOMAIN v[2]})
  ELSE 0
RECURSIVE NestingOfAll(_)
\* The nesting depths of the values of a list, added up.
NestingOfAll(values) ==
  IF values = <<>> THEN 0 ELSE Nesting(Head(values)) + NestingOfAll(Tail(values))

=========================================================================
